---- MODULE Spec2Model ----
(***************************************************************************)
(* ClearSight ETL pipeline: the watermark store, the six change            *)
(* extractors, the transformers, the three write policies of the loader    *)
(* and the cycle orchestrator driven by the scheduler loop.                *)
(*                                                                         *)
(* Time is in seconds since the default epoch 2020-01-01 00:00:00 (= 0).   *)
(* A nullable column holds Null (<<>>) or <<v>>.                           *)
(***************************************************************************)
EXTENDS Integers, Sequences, FiniteSets, TLC

VARIABLES
    now,            \* wall clock, the value NOW() returns
    wm,             \* etl_watermark: set of rows
    src,            \* source store: one set of rows per base table
    tgt,            \* target store: one set of rows per data table
    pc,             \* scheduler / run_cycle position
    ent,            \* index (1..6) of the entity block run_cycle is in
    since,          \* run_cycle local: value returned by get_watermark
    rows,           \* run_cycle local: rows returned by the extractor
    transformed,    \* run_cycle local: tuples returned by the transformer
    cycle,          \* number of run_cycle invocations started
    budget,         \* environment events (source writes, store failures, in-cycle
                    \* clock steps) still allowed
    trail,          \* per entity: steps that returned in this invocation
    raised,         \* per entity: step that raised in this invocation, or "none"
    wmAtStart,      \* etl_watermark as it was when this invocation started
    sinceNow,       \* per entity: get_watermark's result in this invocation
    sincePrev,      \* per entity: get_watermark's result in the previous one
    raisedPrev,     \* per entity: "raised" of the previous invocation
    phase,          \* loader harness: "ready", or "once" / "twice" after a batch
                    \* was loaded once / a second time in succession
    lastLoad,       \* loader harness: the entity and batch last loaded, and the
                    \* table as that load left it
    firstRows,      \* loader harness: the dim_scenario rows as first inserted
    tgtAtStart,     \* target store as it was when this invocation started
    srcAtExtract,   \* source store as the current block's extraction read it
    offered,        \* per entity: rows extracted by its last committed block
    dropped,        \* per entity: keys of selected records LIMIT has cut off
    late,           \* per entity: keys of records that became visible between an
                    \* extraction and its commit, older than that commit's window
    counted,        \* per entity: the row counts of its committed blocks, summed
    extractedAt,    \* per entity: Null, or the clock reading when its extractor
                    \* last returned
    unconfirmed,    \* per entity: the rows of its last block whose load committed
                    \* and whose update_watermark raised, until a block commits
    fn,             \* coercion harness: the function called, or "none"
    arg,            \* coercion harness: the value it is called with
    ret,            \* coercion harness: Null, or what the call returned or raised
    ins,            \* coercion harness: Null, or the outcome of inserting the
                    \* flattened columns the call returned
    consecutive_failures,   \* scheduler local
    criticals,      \* number of escalation (CRITICAL) log records emitted
    outcomes,       \* per run_cycle invocation so far: whether it raised,
                    \* whether the watermark store was unreachable during it, and
                    \* whether the source store was during it or the sleep after it
    wmDown,         \* the watermark store is unreachable
    limit,          \* number of run_cycle invocations the run is followed for
    exit,           \* Null while the process runs, else its exit status
    source_pool,    \* db._source_pool: whether it was created, its idle
                    \* connections, the number of connections checked out
    srcDown         \* the source store is unreachable

vars == <<now, wm, src, tgt, pc, ent, since, rows, transformed, cycle, budget,
          trail, raised, wmAtStart, sinceNow, sincePrev,
          raisedPrev, phase, lastLoad, firstRows, tgtAtStart, srcAtExtract,
          offered, dropped, late, counted, extractedAt, unconfirmed,
          fn, arg, ret, ins,
          consecutive_failures, criticals, outcomes, wmDown, limit, exit,
          source_pool, srcDown>>

----------------------------------------------------------------------------
(* Program constants *)

POLL_INTERVAL_SEC == 30
OVERLAP_SEC == 90
MAX_CONSECUTIVE_FAILURES == 10
DefaultEpoch == 0

(* Bounds of the model *)

\* clock reading when the daemon starts
StartClock == 200
\* length of one in-cycle clock step
TickSec == 10
\* a lagging source write carries a timestamp this many seconds in the past
LagSec == 85
\* row cap of one extraction (the LIMIT of the extraction queries)
RowCap == 1
\* source ids per base table
MaxId == 2
MaxCycles == 2
\* run_cycle invocations followed in the scheduler specification
MaxSchedCycles == 10
MaxEvents == 2
\* loader harness: source writes and clock steps allowed
MaxLoadEvents == 2
\* keys of a payload object handed to the flatteners
MaxKeys == 2
\* rows per page of the paged insert (page_size of execute_values)
PageSize == 1

----------------------------------------------------------------------------
(* Nullable values *)

Null == <<>>
Some(v) == <<v>>
IsNull(x) == x = Null
\* SQL "col >= since": unknown (not selected) when col is NULL
GeSince(col, s) == col # Null /\ col[1] >= s


----------------------------------------------------------------------------
(* Python values: what a JSONB payload deserialises to.  A float is held in
   tenths (35 is 3.5).  A dict is the sequence of its <<key, value>> items in
   insertion order.  A str is plain text, or JSON text held as the sequence
   of its lexical tokens. *)

PyNone == [t |-> "NoneType"]
PyBool(b) == [t |-> "bool", b |-> b]
PyInt(n) == [t |-> "int", n |-> n]
\* an int beyond the range of a double, such as 10**400
PyHuge == [t |-> "int", huge |-> TRUE]
PyFloat(tenths) == [t |-> "float", f |-> tenths]
\* float("inf"), as json.loads returns for Infinity or 1e999
PyInf == [t |-> "float", inf |-> TRUE]
PyStr(s) == [t |-> "str", s |-> s]
PyText(tokens) == [t |-> "str", json |-> tokens]
PyList(items) == [t |-> "list", l |-> items]
PyDict(items) == [t |-> "dict", d |-> items]

\* an exception leaving the expression
PyRaise(exc) == [t |-> "raise", exc |-> exc]
Raises(x) == x.t = "raise"

IsHuge(x) == "huge" \in DOMAIN x
IsInf(x) == "inf" \in DOMAIN x
IsText(x) == "json" \in DOMAIN x

\* bool(val)
PyTruth(x) ==
    CASE x.t = "NoneType" -> FALSE
      [] x.t = "bool" -> x.b
      [] x.t = "int" -> IsHuge(x) \/ x.n # 0
      [] x.t = "float" -> IsInf(x) \/ x.f # 0
      [] x.t = "str" -> IF IsText(x) THEN x.json # <<>> ELSE x.s # ""
      [] x.t = "list" -> x.l # <<>>
      [] x.t = "dict" -> x.d # <<>>

\* str.lower() on the texts of the model
Lower(s) ==
    CASE s = "True" -> "true"
      [] s = "YES" -> "yes"
      [] OTHER -> s

\* the texts float() and int() parse, with their values
FloatTexts == [x \in {"0", "1", "3", "3.5", "2024"} |->
                 CASE x = "0" -> 0 [] x = "1" -> 10 [] x = "3" -> 30 [] x = "3.5" -> 35
                   [] x = "2024" -> 20240]
IntTexts == [x \in {"0", "1", "3", "2024"} |->
               CASE x = "0" -> 0 [] x = "1" -> 1 [] x = "3" -> 3 [] x = "2024" -> 2024]

\* float(val): the float, or the exception it raises
PyFloatOf(x) ==
    CASE x.t = "bool" -> PyFloat(IF x.b THEN 10 ELSE 0)
      [] x.t = "int" -> IF IsHuge(x) THEN PyRaise("OverflowError") ELSE PyFloat(x.n * 10)
      [] x.t = "float" -> x
      [] x.t = "str" ->
           IF ~IsText(x) /\ x.s \in DOMAIN FloatTexts THEN PyFloat(FloatTexts[x.s])
           ELSE PyRaise("ValueError")
      [] OTHER -> PyRaise("TypeError")

\* int(val): the int, or the exception it raises
PyIntOf(x) ==
    CASE x.t = "bool" -> PyInt(IF x.b THEN 1 ELSE 0)
      [] x.t = "int" -> x
      [] x.t = "float" ->
           IF IsInf(x) THEN PyRaise("OverflowError") ELSE PyInt(x.f \div 10)
      [] x.t = "str" ->
           IF ~IsText(x) /\ x.s \in DOMAIN IntTexts THEN PyInt(IntTexts[x.s])
           ELSE PyRaise("ValueError")
      [] OTHER -> PyRaise("TypeError")

\* except (ValueError, TypeError): return None
Caught(x) == IF Raises(x) /\ x.exc \in {"ValueError", "TypeError"} THEN PyNone ELSE x

----------------------------------------------------------------------------
(* Tolerant coercions *)

\* dict.get(key): the value of the first item with that key, None when absent
DictGet(items, key) ==
    IF \E i \in 1..Len(items) : items[i][1] = key
    THEN items[CHOOSE i \in 1..Len(items) : items[i][1] = key][2]
    ELSE PyNone

safe_get(data, key) == IF data.t = "dict" THEN DictGet(data.d, key) ELSE PyNone

safe_bool(val) ==
    CASE val.t = "NoneType" -> PyNone
      [] val.t = "bool" -> val
      [] val.t = "str" ->
           IF IsText(val) THEN PyBool(FALSE)
           ELSE PyBool(Lower(val.s) \in {"true", "1", "yes"})
      [] OTHER -> PyBool(PyTruth(val))

safe_numeric(val) == IF val.t = "NoneType" THEN PyNone ELSE Caught(PyFloatOf(val))

safe_int(val) == IF val.t = "NoneType" THEN PyNone ELSE Caught(PyIntOf(val))

----------------------------------------------------------------------------
(* JSON text, as the sequence of its lexical tokens *)

Punct(c) == [k |-> "punct", x |-> c]
Lit(w) == [k |-> "lit", x |-> w]
Num(digits) == [k |-> "num", x |-> digits]
Str(chars) == [k |-> "str", x |-> chars]
\* characters that start no JSON token
Junk(chars) == [k |-> "junk", x |-> chars]

\* how json.dumps writes the ints and floats of the model
IntRepr == [n \in 0..3 \cup {2024} |->
              CASE n = 0 -> "0" [] n = 1 -> "1" [] n = 2 -> "2" [] n = 3 -> "3"
                [] n = 2024 -> "2024"]
FloatRepr == [f \in {0, 10, 30, 35} |->
                CASE f = 0 -> "0.0" [] f = 10 -> "1.0" [] f = 30 -> "3.0" [] f = 35 -> "3.5"]

\* how json.loads reads a number token
NumValue(digits) ==
    CASE digits = "0" -> PyInt(0)
      [] digits = "1" -> PyInt(1)
      [] digits = "2" -> PyInt(2)
      [] digits = "3" -> PyInt(3)
      [] digits = "2024" -> PyInt(2024)
      [] digits = "0.0" -> PyFloat(0)
      [] digits = "1.0" -> PyFloat(10)
      [] digits = "3.0" -> PyFloat(30)
      [] digits = "3.5" -> PyFloat(35)
      [] digits = "1e400" -> PyInf
      [] digits = "Infinity" -> PyInf
      [] digits = "1(0*400)" -> PyHuge

LitValue(w) ==
    CASE w = "null" -> PyNone
      [] w = "true" -> PyBool(TRUE)
      [] w = "false" -> PyBool(FALSE)

RECURSIVE json_dumps(_)
RECURSIVE DumpItems(_, _)
RECURSIVE DumpElems(_, _)

\* "k1": v1, "k2": v2, ... from item i on
DumpItems(items, i) ==
    IF i > Len(items) THEN <<>>
    ELSE (IF i > 1 THEN <<Punct(",")>> ELSE <<>>)
         \o <<Str(items[i][1]), Punct(":")>> \o json_dumps(items[i][2])
         \o DumpItems(items, i + 1)

DumpElems(elems, i) ==
    IF i > Len(elems) THEN <<>>
    ELSE (IF i > 1 THEN <<Punct(",")>> ELSE <<>>)
         \o json_dumps(elems[i]) \o DumpElems(elems, i + 1)

\* the tokens json.dumps(x, default=str) writes
json_dumps(x) ==
    CASE x.t = "NoneType" -> <<Lit("null")>>
      [] x.t = "bool" -> <<Lit(IF x.b THEN "true" ELSE "false")>>
      [] x.t = "int" -> <<Num(IF IsHuge(x) THEN "1(0*400)" ELSE IntRepr[x.n])>>
      [] x.t = "float" -> <<Num(IF IsInf(x) THEN "Infinity" ELSE FloatRepr[x.f])>>
      [] x.t = "str" -> <<Str(IF IsText(x) THEN x.json ELSE x.s)>>
      [] x.t = "list" -> <<Punct("[")>> \o DumpElems(x.l, 1) \o <<Punct("]")>>
      [] x.t = "dict" -> <<Punct("{")>> \o DumpItems(x.d, 1) \o <<Punct("}")>>

\* d[key] = val: replaces the value of an existing key in place, else appends
DictSet(items, key, val) ==
    IF \E i \in 1..Len(items) : items[i][1] = key
    THEN [i \in 1..Len(items) |-> IF items[i][1] = key THEN <<key, val>> ELSE items[i]]
    ELSE Append(items, <<key, val>>)

Parsed(val, next) == [ok |-> TRUE, val |-> val, next |-> next]
NoParse == [ok |-> FALSE]

RECURSIVE ParseValue(_, _)
RECURSIVE ParseMembers(_, _, _)
RECURSIVE ParseElems(_, _, _)

\* the members of an object from token i on, after the items of acc
ParseMembers(ts, i, acc) ==
    IF i + 2 > Len(ts) \/ ts[i].k # "str" \/ ts[i + 1] # Punct(":") THEN NoParse
    ELSE LET m == ParseValue(ts, i + 2) IN
         IF ~m.ok \/ m.next > Len(ts) THEN NoParse
         ELSE LET d == DictSet(acc, ts[i].x, m.val) IN
              CASE ts[m.next] = Punct("}") -> Parsed(PyDict(d), m.next + 1)
                [] ts[m.next] = Punct(",") -> ParseMembers(ts, m.next + 1, d)
                [] OTHER -> NoParse

ParseElems(ts, i, acc) ==
    LET m == ParseValue(ts, i) IN
    IF ~m.ok \/ m.next > Len(ts) THEN NoParse
    ELSE CASE ts[m.next] = Punct("]") -> Parsed(PyList(Append(acc, m.val)), m.next + 1)
           [] ts[m.next] = Punct(",") -> ParseElems(ts, m.next + 1, Append(acc, m.val))
           [] OTHER -> NoParse

\* the JSON value that starts at token i
ParseValue(ts, i) ==
    IF i > Len(ts) THEN NoParse
    ELSE CASE ts[i].k = "lit" -> Parsed(LitValue(ts[i].x), i + 1)
           [] ts[i].k = "num" -> Parsed(NumValue(ts[i].x), i + 1)
           [] ts[i].k = "str" -> Parsed(PyStr(ts[i].x), i + 1)
           [] ts[i] = Punct("{") ->
                IF i < Len(ts) /\ ts[i + 1] = Punct("}") THEN Parsed(PyDict(<<>>), i + 2)
                ELSE ParseMembers(ts, i + 1, <<>>)
           [] ts[i] = Punct("[") ->
                IF i < Len(ts) /\ ts[i + 1] = Punct("]") THEN Parsed(PyList(<<>>), i + 2)
                ELSE ParseElems(ts, i + 1, <<>>)
           [] OTHER -> NoParse

\* the tokens of a plain str
Lex(chars) ==
    CASE chars \in {"0", "1", "2", "3", "2024", "3.5"} -> <<Num(chars)>>
      [] chars \in {"true", "false", "null"} -> <<Lit(chars)>>
      [] OTHER -> <<Junk(chars)>>

\* json.loads(text): the value, or the exception it raises
json_loads(text) ==
    LET ts == IF IsText(text) THEN text.json ELSE Lex(text.s)
        m == ParseValue(ts, 1)
    IN IF m.ok /\ m.next = Len(ts) + 1 THEN m.val ELSE PyRaise("JSONDecodeError")

----------------------------------------------------------------------------
(* Flattening of the semi-structured payloads *)

\* the object the known keys are read from: the payload itself, or what the
\* payload text parses to, or {} for anything else
PayloadObject(data) ==
    IF data.t = "dict" THEN data
    ELSE IF data.t = "str"
         THEN (IF Raises(json_loads(data)) THEN PyDict(<<>>) ELSE json_loads(data))
         ELSE PyDict(<<>>)

\* json.dumps(data, default=str) if data else None
FullText(data) == IF PyTruth(data) THEN PyText(json_dumps(data)) ELSE PyNone

flatten_input_data(input_data) ==
    LET d == PayloadObject(input_data) IN
    [inp_value |-> safe_numeric(safe_get(d, "value")),
     inp_unit |-> safe_get(d, "unit"),
     inp_start_year |-> safe_int(safe_get(d, "start_year")),
     inp_end_year |-> safe_int(safe_get(d, "end_year")),
     inp_input_type |-> safe_get(d, "input_type"),
     inp_timeframe |-> safe_get(d, "timeframe"),
     inp_dosing_type |-> safe_get(d, "dosing_type"),
     inp_actuals_flag |-> safe_bool(safe_get(d, "actuals_flag")),
     inp_curve_type |-> safe_get(d, "curve_type"),
     inp_selected_output |-> safe_get(d, "selected_output"),
     inp_pfs_flag |-> safe_bool(safe_get(d, "pfs_flag")),
     inp_ppc_flag |-> safe_bool(safe_get(d, "ppc_flag")),
     input_data_full_text |-> FullText(d)]

flatten_event_data(event_data) ==
    LET d == PayloadObject(event_data) IN
    [evt_year |-> safe_int(safe_get(d, "year")),
     evt_share_value |-> safe_numeric(safe_get(d, "share_value")),
     evt_entry_quarter |-> safe_get(d, "entry_quarter"),
     evt_erosion_rate |-> safe_numeric(safe_get(d, "erosion_rate")),
     evt_launch_date |-> safe_get(d, "launch_date"),
     evt_steady_state |-> safe_numeric(safe_get(d, "steady_state")),
     evt_sob_value |-> safe_numeric(safe_get(d, "sob_value")),
     event_data_full_text |-> FullText(d)]

\* an exception raised while a column of the flat row is computed leaves the
\* function
FlattenRaises(flat) == \E c \in DOMAIN flat : Raises(flat[c])

----------------------------------------------------------------------------
(* Entities, in the order run_cycle processes them *)

E_SCEN == "public.fc_scenario"
E_NODE == "public.fc_scenario_node_data"
E_RUN == "public.fc_scenario_run"
E_CALC == "public.fc_scenario_node_calc"
E_EVT == "public.fc_scenario_event_data"
E_TL == "timeline"

Units == <<E_SCEN, E_NODE, E_RUN, E_CALC, E_EVT, E_TL>>
Entities == {Units[i] : i \in 1..Len(Units)}

\* table names seeded by SCHEMA_SQL
SeedNames == Entities \cup {"public.fc_scenario_run_branch"}

Ids == 1..MaxId

----------------------------------------------------------------------------
(* Watermark store *)

\* the row INSERT INTO etl_watermark (table_name) creates, from the column defaults
SeedRow(n) ==
    [table_name |-> n, last_fetched_at |-> DefaultEpoch, rows_last_run |-> 0,
     last_run_at |-> Null, total_rows_ever |-> 0]

\* mutant: the seed statement replaces the rows that already exist
SeedWatermarkReplacing(w) == {SeedRow(n) : n \in SeedNames}

\* INSERT ... ON CONFLICT (table_name) DO NOTHING
SeedWatermark(w) ==
    w \cup {SeedRow(n) : n \in {m \in SeedNames : \A x \in w : x.table_name # m}}

WmRows(w, n) == {x \in w : x.table_name = n}

\* mutant: the stored cursor is returned as it is, no overlap subtracted
get_watermark_at_cursor(w, n) ==
    IF WmRows(w, n) # {}
    THEN (CHOOSE x \in WmRows(w, n) : TRUE).last_fetched_at
    ELSE DefaultEpoch

\* mutant: the overlap is subtracted from the default as well
get_watermark_default_shifted(w, n) ==
    IF WmRows(w, n) # {}
    THEN (CHOOSE x \in WmRows(w, n) : TRUE).last_fetched_at - OVERLAP_SEC
    ELSE DefaultEpoch - OVERLAP_SEC

\* get_watermark: fetchone() of the SELECT, minus the overlap; the default when no row
get_watermark(w, n) ==
    IF WmRows(w, n) # {}
    THEN (CHOOSE x \in WmRows(w, n) : TRUE).last_fetched_at - OVERLAP_SEC
    ELSE DefaultEpoch

\* mutant: the running total is set to the count of the last run
WatermarkUpdateOverwriting(x, n, t) ==
    [x EXCEPT !.last_fetched_at = t, !.rows_last_run = n, !.last_run_at = Some(t),
              !.total_rows_ever = n]

\* the row update_watermark's UPDATE writes
WatermarkUpdate(x, n, t) ==
    [x EXCEPT !.last_fetched_at = t, !.rows_last_run = n, !.last_run_at = Some(t),
              !.total_rows_ever = @ + n]

\* update_watermark: UPDATE etl_watermark SET ... WHERE table_name = name
update_watermark(w, name, n, t) ==
    {IF x.table_name = name THEN WatermarkUpdate(x, n, t) ELSE x : x \in w}

Cursor(w, n) == (CHOOSE x \in WmRows(w, n) : TRUE).last_fetched_at

----------------------------------------------------------------------------
(* Source store.  Rows of the base tables; the dimension rows the extraction
   queries join to (model, forecast cycle, node, event type, run branch) are
   taken to exist, and the columns they contribute are folded into the row. *)

ScenarioRow(id, t) ==
    [id |-> id, scenario_display_name |-> "n1", status |-> "DRAFT",
     created_at |-> Some(t), updated_at |-> Null, submitted_at |-> Null,
     locked_at |-> Null, withdraw_at |-> Null, delete_at |-> Null]

\* the payloads the application writes: an input as first saved and as revised
InputData1 ==
    PyDict(<< <<"value", PyFloat(35)>>, <<"unit", PyStr("mg")>>,
              <<"start_year", PyInt(2024)>>, <<"actuals_flag", PyBool(TRUE)>> >>)
InputData2 == PyDict(<< <<"value", PyFloat(10)>>, <<"unit", PyStr("mg")>> >>)
EventData1 ==
    PyDict(<< <<"year", PyInt(2024)>>, <<"share_value", PyFloat(35)>>,
              <<"entry_quarter", PyStr("Q1")>> >>)
EventData2 == PyDict(<< <<"year", PyInt(2024)>>, <<"share_value", PyFloat(10)>> >>)

NodeDataRow(id, t, msg) ==
    [id |-> id, scenario_id |-> 1, model_node_id |-> 1, input_validated |-> msg = Null,
     input_validation_message |-> msg, input_data |-> InputData1,
     created_at |-> Some(t), end_at |-> Null]

RunRow(id, t) ==
    [id |-> id, scenario_id |-> 1, run_status |-> "IN_PROGRESS", run_at |-> Some(t),
     run_complete_at |-> Null]

CalcRow(id, t) ==
    [id |-> id, run_id |-> 1, scenario_id |-> 1, status |-> "running",
     created_at |-> Some(t), processing_end_at |-> Null]

EventDataRow(id, t, msg) ==
    [id |-> id, scenario_id |-> 1, is_validated |-> msg = Null,
     input_validation_message |-> msg, event_data |-> EventData1,
     created_at |-> Some(t), end_at |-> Null]

EmptySource ==
    [scenario |-> {}, node_data |-> {}, run |-> {}, calc |-> {}, event_data |-> {}]

HasId(tbl, id) == \E r \in tbl : r.id = id

\* UPDATE tbl SET col = v, col2 = v2 WHERE id = id
Update2(tbl, id, col, v, col2, v2) ==
    {IF r.id = id THEN [r EXCEPT ![col] = v, ![col2] = v2] ELSE r : r \in tbl}

----------------------------------------------------------------------------
(* Change extractors: the rows each query's WHERE clause selects, projected
   to the query's output columns *)

ScenarioSelected(r, s) ==
    \/ GeSince(r.created_at, s)
    \/ GeSince(r.updated_at, s)
    \/ GeSince(r.submitted_at, s)
    \/ GeSince(r.locked_at, s)
    \/ GeSince(r.withdraw_at, s)

ScenarioChanges(S, s) == {r \in S.scenario : ScenarioSelected(r, s)}

NodeDataSelected(r, s) ==
    GeSince(r.created_at, s) \/ (r.end_at # Null /\ GeSince(r.end_at, s))

NodeDataOut(r) ==
    [id |-> r.id, scenario_id |-> r.scenario_id, model_node_id |-> r.model_node_id,
     input_validated |-> r.input_validated,
     input_validation_message |-> r.input_validation_message,
     input_data |-> r.input_data,
     version_started_at |-> r.created_at, version_ended_at |-> r.end_at]

NodeDataChanges(S, s) == {NodeDataOut(r) : r \in {x \in S.node_data : NodeDataSelected(x, s)}}

RunSelected(r, s) ==
    GeSince(r.run_at, s) \/ (r.run_complete_at # Null /\ GeSince(r.run_complete_at, s))

\* the LEFT JOINs to the run's branches and their node calcs, aggregated per run
RunOut(S, r) ==
    [run_id |-> r.id, scenario_id |-> r.scenario_id, run_status |-> r.run_status,
     run_at |-> r.run_at, run_complete_at |-> r.run_complete_at,
     total_nodes_processed |-> Cardinality({c \in S.calc : c.run_id = r.id}),
     nodes_success |->
         Cardinality({c \in S.calc : c.run_id = r.id /\ c.status = "success"})]

RunChanges(S, s) == {RunOut(S, r) : r \in {x \in S.run : RunSelected(x, s)}}

CalcSelected(r, s) == GeSince(r.created_at, s)

CalcOut(r) ==
    [id |-> r.id, run_id |-> r.run_id, scenario_id |-> r.scenario_id,
     calc_status |-> r.status, processing_end_at |-> r.processing_end_at]

CalcChanges(S, s) == {CalcOut(r) : r \in {x \in S.calc : CalcSelected(x, s)}}

EventDataSelected(r, s) ==
    GeSince(r.created_at, s) \/ (r.end_at # Null /\ GeSince(r.end_at, s))

EventDataOut(r) ==
    [id |-> r.id, scenario_id |-> r.scenario_id, is_validated |-> r.is_validated,
     validation_message |-> r.input_validation_message,
     event_data |-> r.event_data,
     version_started_at |-> r.created_at, version_ended_at |-> r.end_at]

EventDataChanges(S, s) ==
    {EventDataOut(r) : r \in {x \in S.event_data : EventDataSelected(x, s)}}

\* one branch of the UNION ALL: rows of tbl whose column col is >= since
TimelineBranch(tbl, col, sid, type, prefix, s) ==
    {[event_time |-> r[col], event_type |-> type, scenario_id |-> r[sid],
      source_key |-> <<prefix, r.id>>] : r \in {x \in tbl : GeSince(x[col], s)}}

TimelineChanges(S, s) ==
    TimelineBranch(S.scenario, "created_at", "id", "SCENARIO_CREATED", "SC_", s)
    \cup TimelineBranch(S.scenario, "submitted_at", "id", "SUBMITTED", "SUBM_", s)
    \cup TimelineBranch(S.scenario, "locked_at", "id", "LOCKED", "LOCK_", s)
    \cup TimelineBranch(S.scenario, "withdraw_at", "id", "WITHDRAWN", "WITH_", s)
    \cup TimelineBranch(S.node_data, "created_at", "scenario_id", "NODE_EDITED", "NE_", s)
    \cup TimelineBranch(S.event_data, "created_at", "scenario_id", "EVENT_EDITED", "EVT_", s)
    \cup TimelineBranch(S.run, "run_at", "scenario_id", "RUN_TRIGGERED", "RT_", s)
    \cup TimelineBranch(S.run, "run_complete_at", "scenario_id", "RUN_COMPLETED", "RC_", s)

\* the change set of entity e: every row its query selects, before LIMIT
Changes(e, S, s) ==
    CASE e = E_SCEN -> ScenarioChanges(S, s)
      [] e = E_NODE -> NodeDataChanges(S, s)
      [] e = E_RUN -> RunChanges(S, s)
      [] e = E_CALC -> CalcChanges(S, s)
      [] e = E_EVT -> EventDataChanges(S, s)
      [] e = E_TL -> TimelineChanges(S, s)

\* the column the query is ORDER BY, or "" when the query has no ORDER BY
OrderColumn(e) ==
    CASE e = E_NODE -> "version_started_at"
      [] e = E_TL -> "event_time"
      [] OTHER -> ""

\* the results LIMIT can return: any RowCap rows of the change set, the first
\* RowCap in the query's order when it has one (ties broken arbitrarily)
Limited(e, all) ==
    IF Cardinality(all) <= RowCap THEN {all}
    ELSE {b \in SUBSET all :
            /\ Cardinality(b) = RowCap
            /\ OrderColumn(e) # "" =>
                 \A r \in b, q \in all \ b : r[OrderColumn(e)][1] <= q[OrderColumn(e)][1]}

----------------------------------------------------------------------------
(* Transformers: one target tuple per extracted row *)

transform_scenarios(rs) ==
    {[scenario_id |-> r.id, scenario_display_name |-> r.scenario_display_name,
      scenario_status |-> r.status, created_at |-> r.created_at,
      submitted_at |-> r.submitted_at, locked_at |-> r.locked_at,
      updated_at |-> r.updated_at, withdraw_at |-> r.withdraw_at,
      delete_at |-> r.delete_at] : r \in rs}

\* Python truthiness of a nullable text
Truthy(x) == x # Null /\ x[1] # ""

\* transform_node_data reads r["validation_message"], a key the extracted row
\* does not have, whenever r.get("input_validation_message") is truthy: KeyError
NodeDataRaises(rs) == \E r \in rs : Truthy(r.input_validation_message)

transform_node_data(rs) ==
    {[source_id |-> r.id, scenario_id |-> r.scenario_id,
      model_node_id |-> r.model_node_id,
      version_started_at |-> r.version_started_at,
      version_ended_at |-> r.version_ended_at,
      is_current_version |-> (r.version_ended_at = Null),
      input_validated |-> r.input_validated,
      validation_message |-> Null] @@ flatten_input_data(r.input_data) : r \in rs}

transform_runs(rs) ==
    {[run_id |-> r.run_id, scenario_id |-> r.scenario_id, run_status |-> r.run_status,
      run_at |-> r.run_at, run_complete_at |-> r.run_complete_at,
      total_nodes_processed |-> r.total_nodes_processed,
      nodes_success |-> r.nodes_success] : r \in rs}

transform_node_calc(rs) ==
    {[source_id |-> r.id, run_id |-> r.run_id, scenario_id |-> r.scenario_id,
      calc_status |-> r.calc_status, processing_end_at |-> r.processing_end_at]
        : r \in rs}

transform_event_data(rs) ==
    {[source_id |-> r.id, scenario_id |-> r.scenario_id,
      version_started_at |-> r.version_started_at,
      version_ended_at |-> r.version_ended_at,
      is_current_version |-> (r.version_ended_at = Null),
      is_validated |-> r.is_validated,
      validation_message |-> r.validation_message] @@ flatten_event_data(r.event_data)
        : r \in rs}

transform_timeline(rs) ==
    {[scenario_id |-> r.scenario_id, event_time |-> r.event_time,
      event_type |-> r.event_type, source_key |-> r.source_key] : r \in rs}

\* an exception leaves transform_<entity>(rs)
TransformRaises(e, rs) ==
    \/ e = E_NODE /\ NodeDataRaises(rs)
    \/ e = E_NODE /\ \E r \in rs : FlattenRaises(flatten_input_data(r.input_data))
    \/ e = E_EVT /\ \E r \in rs : FlattenRaises(flatten_event_data(r.event_data))

Transform(e, rs) ==
    CASE e = E_SCEN -> transform_scenarios(rs)
      [] e = E_NODE -> transform_node_data(rs)
      [] e = E_RUN -> transform_runs(rs)
      [] e = E_CALC -> transform_node_calc(rs)
      [] e = E_EVT -> transform_event_data(rs)
      [] e = E_TL -> transform_timeline(rs)

----------------------------------------------------------------------------
(* Loader.  A table is a set of rows; t is NOW() of the load's transaction.
   A batch holds at most one row per conflict key, as every extractor
   selects each source row once. *)

\* INSERT INTO ... VALUES batch ON CONFLICT (key): the stored rows a batch row
\* conflicts with, the batch row offered for stored row x, and the batch rows
\* that conflict with nothing and are inserted
Conflicts(batch, key, x) == \E r \in batch : r[key] = x[key]
Excluded(batch, key, x) == CHOOSE r \in batch : r[key] = x[key]
Fresh(tbl, batch, key) == {q \in batch : \A x \in tbl : x[key] # q[key]}

DimScenarioInsert(r, t) ==
    [scenario_id |-> r.scenario_id, scenario_display_name |-> r.scenario_display_name,
     scenario_status |-> r.scenario_status, created_at |-> r.created_at,
     submitted_at |-> r.submitted_at, locked_at |-> r.locked_at,
     updated_at |-> r.updated_at, withdraw_at |-> r.withdraw_at,
     delete_at |-> r.delete_at, etl_loaded_at |-> t, etl_updated_at |-> t]

\* mutant: the DO UPDATE list also names an origin column
DimScenarioConflictRenaming(x, r, t) ==
    [x EXCEPT !.scenario_status = r.scenario_status, !.submitted_at = r.submitted_at,
              !.locked_at = r.locked_at, !.updated_at = r.updated_at,
              !.withdraw_at = r.withdraw_at, !.delete_at = r.delete_at,
              !.scenario_display_name = r.scenario_display_name,
              !.etl_updated_at = t]

DimScenarioConflict(x, r, t) ==
    [x EXCEPT !.scenario_status = r.scenario_status, !.submitted_at = r.submitted_at,
              !.locked_at = r.locked_at, !.updated_at = r.updated_at,
              !.withdraw_at = r.withdraw_at, !.delete_at = r.delete_at,
              !.etl_updated_at = t]

load_scenarios(tbl, batch, t) ==
    {IF Conflicts(batch, "scenario_id", x) THEN DimScenarioConflict(x, Excluded(batch, "scenario_id", x), t) ELSE x : x \in tbl}
    \cup {DimScenarioInsert(r, t) : r \in Fresh(tbl, batch, "scenario_id")}

\* the flattened payload columns of the two versioned tables' INSERT lists
InputColumns ==
    {"inp_value", "inp_unit", "inp_start_year", "inp_end_year", "inp_input_type",
     "inp_timeframe", "inp_dosing_type", "inp_actuals_flag", "inp_curve_type",
     "inp_selected_output", "inp_pfs_flag", "inp_ppc_flag", "input_data_full_text"}
EventColumns ==
    {"evt_year", "evt_share_value", "evt_entry_quarter", "evt_erosion_rate",
     "evt_launch_date", "evt_steady_state", "evt_sob_value", "event_data_full_text"}
Columns(r, cols) == [c \in cols |-> r[c]]

NodeHistoryInsert(r, t) ==
    [source_id |-> r.source_id, scenario_id |-> r.scenario_id,
     model_node_id |-> r.model_node_id, version_started_at |-> r.version_started_at,
     version_ended_at |-> r.version_ended_at,
     is_current_version |-> r.is_current_version,
     input_validated |-> r.input_validated,
     validation_message |-> r.validation_message, etl_loaded_at |-> t]
    @@ Columns(r, InputColumns)

\* mutant: the DO UPDATE list leaves is_current_version out
NodeHistoryConflictKeepingFlag(x, r, t) ==
    [x EXCEPT !.version_ended_at = r.version_ended_at,
              !.input_validated = r.input_validated,
              !.validation_message = r.validation_message,
              !.etl_loaded_at = t]

NodeHistoryConflict(x, r, t) ==
    [x EXCEPT !.version_ended_at = r.version_ended_at,
              !.is_current_version = r.is_current_version,
              !.input_validated = r.input_validated,
              !.validation_message = r.validation_message,
              !.etl_loaded_at = t]

load_node_data(tbl, batch, t) ==
    {IF Conflicts(batch, "source_id", x) THEN NodeHistoryConflict(x, Excluded(batch, "source_id", x), t) ELSE x : x \in tbl}
    \cup {NodeHistoryInsert(r, t) : r \in Fresh(tbl, batch, "source_id")}

RunSummaryInsert(r, t) ==
    [run_id |-> r.run_id, scenario_id |-> r.scenario_id, run_status |-> r.run_status,
     run_at |-> r.run_at, run_complete_at |-> r.run_complete_at,
     total_nodes_processed |-> r.total_nodes_processed,
     nodes_success |-> r.nodes_success, etl_loaded_at |-> t, etl_updated_at |-> t]

RunSummaryConflict(x, r, t) ==
    [x EXCEPT !.run_status = r.run_status, !.run_complete_at = r.run_complete_at,
              !.total_nodes_processed = r.total_nodes_processed,
              !.nodes_success = r.nodes_success, !.etl_updated_at = t]

load_runs(tbl, batch, t) ==
    {IF Conflicts(batch, "run_id", x) THEN RunSummaryConflict(x, Excluded(batch, "run_id", x), t) ELSE x : x \in tbl}
    \cup {RunSummaryInsert(r, t) : r \in Fresh(tbl, batch, "run_id")}

CalcResultInsert(r, t) ==
    [source_id |-> r.source_id, run_id |-> r.run_id, scenario_id |-> r.scenario_id,
     calc_status |-> r.calc_status, processing_end_at |-> r.processing_end_at,
     etl_loaded_at |-> t]

\* mutant: the conflict action stamps the stored row, as the versioned loads do
load_node_calc_stamping(tbl, batch, t) ==
    {IF Conflicts(batch, "source_id", x) THEN [x EXCEPT !.etl_loaded_at = t] ELSE x
        : x \in tbl}
    \cup {CalcResultInsert(r, t) : r \in Fresh(tbl, batch, "source_id")}

\* mutant: the conflict action takes the offered status and end time
load_node_calc_refreshing(tbl, batch, t) ==
    {IF Conflicts(batch, "source_id", x)
     THEN [x EXCEPT !.calc_status = Excluded(batch, "source_id", x).calc_status,
                    !.processing_end_at =
                        Excluded(batch, "source_id", x).processing_end_at]
     ELSE x : x \in tbl}
    \cup {CalcResultInsert(r, t) : r \in Fresh(tbl, batch, "source_id")}

\* ON CONFLICT (source_id) DO NOTHING
load_node_calc(tbl, batch, t) ==
    {IF Conflicts(batch, "source_id", x) THEN x ELSE x : x \in tbl}
    \cup {CalcResultInsert(r, t) : r \in Fresh(tbl, batch, "source_id")}

EventHistoryInsert(r, t) ==
    [source_id |-> r.source_id, scenario_id |-> r.scenario_id,
     version_started_at |-> r.version_started_at,
     version_ended_at |-> r.version_ended_at,
     is_current_version |-> r.is_current_version, is_validated |-> r.is_validated,
     validation_message |-> r.validation_message, etl_loaded_at |-> t]
    @@ Columns(r, EventColumns)

\* mutant: the DO UPDATE list also takes the offered raw payload text
EventHistoryConflictRefreshing(x, r, t) ==
    [x EXCEPT !.version_ended_at = r.version_ended_at,
              !.is_current_version = r.is_current_version,
              !.is_validated = r.is_validated,
              !.validation_message = r.validation_message,
              !.event_data_full_text = r.event_data_full_text,
              !.etl_loaded_at = t]

\* mutant: the DO UPDATE list leaves is_current_version out
EventHistoryConflictKeepingFlag(x, r, t) ==
    [x EXCEPT !.version_ended_at = r.version_ended_at,
              !.is_validated = r.is_validated,
              !.validation_message = r.validation_message,
              !.etl_loaded_at = t]

EventHistoryConflict(x, r, t) ==
    [x EXCEPT !.version_ended_at = r.version_ended_at,
              !.is_current_version = r.is_current_version,
              !.is_validated = r.is_validated,
              !.validation_message = r.validation_message,
              !.etl_loaded_at = t]

load_event_data(tbl, batch, t) ==
    {IF Conflicts(batch, "source_id", x) THEN EventHistoryConflict(x, Excluded(batch, "source_id", x), t) ELSE x : x \in tbl}
    \cup {EventHistoryInsert(r, t) : r \in Fresh(tbl, batch, "source_id")}

TimelineInsert(r, t) ==
    [scenario_id |-> r.scenario_id, event_time |-> r.event_time,
     event_type |-> r.event_type, source_key |-> r.source_key, etl_loaded_at |-> t]

\* mutant: a plain INSERT into a table without the unique key
load_timeline_appending(tbl, batch, t) == tbl \cup {TimelineInsert(r, t) : r \in batch}

\* ON CONFLICT (source_key) DO NOTHING
load_timeline(tbl, batch, t) ==
    {IF Conflicts(batch, "source_key", x) THEN x ELSE x : x \in tbl}
    \cup {TimelineInsert(r, t) : r \in Fresh(tbl, batch, "source_key")}

Load(e, tbl, batch, t) ==
    CASE e = E_SCEN -> load_scenarios(tbl, batch, t)
      [] e = E_NODE -> load_node_data(tbl, batch, t)
      [] e = E_RUN -> load_runs(tbl, batch, t)
      [] e = E_CALC -> load_node_calc(tbl, batch, t)
      [] e = E_EVT -> load_event_data(tbl, batch, t)
      [] e = E_TL -> load_timeline(tbl, batch, t)

\* the dedup key of entity e's target table
KeyOf(e) ==
    CASE e = E_SCEN -> "scenario_id"
      [] e = E_RUN -> "run_id"
      [] e = E_TL -> "source_key"
      [] OTHER -> "source_id"

EmptyTarget == [e \in Entities |-> {}]

----------------------------------------------------------------------------
(* The load's transaction on a pooled target connection.  A transaction is
   the table as committed, which other sessions see, and the table as the
   transaction itself sees it.  A failing commit is taken to commit nothing. *)

\* pool.getconn(): a connection with no transaction open
TxBegin(tbl) == [committed |-> tbl, pending |-> tbl]

\* mutant: the connection is in autocommit mode
TxExecuteAutocommit(tx, e, page, t) ==
    [committed |-> Load(e, tx.pending, page, t), pending |-> Load(e, tx.pending, page, t)]

\* cur.execute of the statement for the rows of page
TxExecute(tx, e, page, t) == [tx EXCEPT !.pending = Load(e, @, page, t)]

\* conn.commit(), conn.rollback()
TxCommit(tx) == [tx EXCEPT !.committed = tx.pending]
TxRollback(tx) == [tx EXCEPT !.pending = tx.committed]

\* _PooledConnection.__exit__
PooledExit(tx, exc) == IF exc THEN TxRollback(tx) ELSE tx

\* the connection pools: SimpleConnectionPool(minconn=1, maxconn=3)
MinConn == 1
MaxConn == 3

\* _source_pool = None
NoPool == [made |-> FALSE, idle |-> <<>>, used |-> 0]

\* get_source_pool(): the pool is created on first use, with minconn open
\* connections; the constructor raises when the store is unreachable and
\* _source_pool stays None
get_source_pool(pool, down) ==
    IF pool.made THEN [pool |-> pool, raised |-> FALSE]
    ELSE IF down THEN [pool |-> pool, raised |-> TRUE]
    ELSE [pool |-> [made |-> TRUE, idle |-> [i \in 1..MinConn |-> "live"], used |-> 0],
          raised |-> FALSE]

\* pool.getconn(): an idle connection if there is one, else a new connection
\* unless maxconn are checked out (PoolError) or the store is unreachable
getconn(pool, down) ==
    IF pool.idle # <<>>
    THEN [pool |-> [pool EXCEPT !.idle = SubSeq(@, 1, Len(@) - 1), !.used = @ + 1],
          conn |-> Some(pool.idle[Len(pool.idle)]), raised |-> FALSE]
    ELSE IF pool.used >= MaxConn \/ down
    THEN [pool |-> pool, conn |-> Null, raised |-> TRUE]
    ELSE [pool |-> [pool EXCEPT !.used = @ + 1], conn |-> Some("live"), raised |-> FALSE]

\* pool.putconn(conn): the connection is checked in; it is kept idle when
\* fewer than minconn are idle and it is not closed
putconn(pool, conn) ==
    IF Len(pool.idle) < MinConn /\ conn = "live"
    THEN [pool EXCEPT !.used = @ - 1, !.idle = Append(@, conn)]
    ELSE [pool EXCEPT !.used = @ - 1]

\* _PooledConnection.__exit__(exc_type): conn.rollback() on the error path,
\* then pool.putconn(conn).  rollback() on a broken connection raises
\* (InterfaceError: connection already closed), and putconn is not reached
PooledConnectionExit(pool, conn, exc) ==
    IF exc /\ conn = "broken" THEN pool ELSE putconn(pool, conn)

\* query_source(sql, params): the pool after the call and whether it raised.
\* A statement sent while the store is unreachable, or on a connection an
\* outage has broken, raises and leaves the connection broken
query_source(pool, down) ==
    LET made == get_source_pool(pool, down) IN
    IF made.raised THEN [pool |-> pool, raised |-> TRUE]
    ELSE LET got == getconn(made.pool, down) IN
         IF got.raised THEN [pool |-> got.pool, raised |-> TRUE]
         ELSE LET conn == IF down THEN "broken" ELSE got.conn[1]
                  exc == conn = "broken"
              IN [pool |-> PooledConnectionExit(got.pool, conn, exc), raised |-> exc]

\* execute_values sends the rows in pages of page_size, one statement each:
\* the rows sent when a page's statement raises (whole pages, not all the
\* rows) or when the commit raises (all the rows)
FailurePoints(batch) ==
    {d \in SUBSET batch : Cardinality(d) % PageSize = 0 \/ d = batch}

\* mutant: the empty-batch return sits inside the with-block
NothingDoneConnected(tbl) ==
    [tbl |-> tbl, raised |-> FALSE, ret |-> Some(0), conns |-> 1]

\* "if not rows: return 0"
NothingDone(tbl) == [tbl |-> tbl, raised |-> FALSE, ret |-> Some(0), conns |-> 0]

\* executemany_target(sql, batch) on table tbl of entity e at time t: the table
\* as committed afterwards, whether the call raised, what it returned, and the
\* connections it took from the pool.  exc says that the store fails, after
\* the rows of sent have been sent.
executemany_target(e, tbl, batch, t, sent, exc) ==
    IF batch = {} THEN NothingDone(tbl)
    ELSE LET executed == TxExecute(TxBegin(tbl), e, IF exc THEN sent ELSE batch, t)
             left == PooledExit(IF exc THEN executed ELSE TxCommit(executed), exc)
         IN [tbl |-> left.committed, raised |-> exc,
             ret |-> IF exc THEN Null ELSE Some(Cardinality(batch)), conns |-> 1]

\* load_<entity>(batch)
LoadCall(e, tbl, batch, t, sent, exc) ==
    IF batch = {} THEN NothingDone(tbl) ELSE executemany_target(e, tbl, batch, t, sent, exc)

----------------------------------------------------------------------------
(* Writes of the operational application to the source store.  A write made
   at clock reading now carries the timestamp now - lag: its transaction
   took the timestamp lag seconds before its rows became visible. *)

Lags == {0, LagSec}

Tables == {"scenario", "node_data", "run", "calc", "event_data"}

\* UPDATE tbl SET col = t WHERE id = id
SetCol(tbl, id, col, t) ==
    {IF r.id = id THEN [r EXCEPT ![col] = Some(t)] ELSE r : r \in tbl}

\* the id a new row of tbl gets
NewIds(tbl) == {i \in Ids : ~HasId(tbl, i) /\ \A j \in 1..(i - 1) : HasId(tbl, j)}

\* the source store after one INSERT into table tb
Inserts(S, tb, t) ==
    CASE tb = "scenario" ->
           {[S EXCEPT !.scenario = @ \cup {ScenarioRow(i, t)}] : i \in NewIds(S.scenario)}
      [] tb = "node_data" ->
           {[S EXCEPT !.node_data = @ \cup {NodeDataRow(i, t, m)}] :
               i \in NewIds(S.node_data), m \in {Null, Some("invalid")}}
      [] tb = "run" ->
           {[S EXCEPT !.run = @ \cup {RunRow(i, t)}] : i \in NewIds(S.run)}
      [] tb = "calc" ->
           {[S EXCEPT !.calc = @ \cup {CalcRow(i, t)}] : i \in NewIds(S.calc)}
      [] tb = "event_data" ->
           {[S EXCEPT !.event_data = @ \cup {EventDataRow(i, t, m)}] :
               i \in NewIds(S.event_data), m \in {Null, Some("invalid")}}

\* the source store after one UPDATE of a row of table tb
Updates(S, tb, t) ==
    CASE tb = "scenario" ->
           UNION {{[S EXCEPT !.scenario = Update2(@, i, "updated_at", Some(t), "scenario_display_name", "n2")],
                   [S EXCEPT !.scenario = Update2(@, i, "submitted_at", Some(t), "status", "SUBMITTED")],
                   [S EXCEPT !.scenario = Update2(@, i, "locked_at", Some(t), "status", "LOCKED")],
                   [S EXCEPT !.scenario = Update2(@, i, "withdraw_at", Some(t), "status", "WITHDRAWN")],
                   [S EXCEPT !.scenario = SetCol(@, i, "delete_at", t)]} :
                  i \in {j \in Ids : HasId(S.scenario, j)}}
      [] tb = "node_data" ->
           UNION {{[S EXCEPT !.node_data = SetCol(@, i, "end_at", t)],
                   [S EXCEPT !.node_data = Update2(@, i, "end_at", Some(t), "input_data", InputData2)]} :
                  i \in {j \in Ids : HasId(S.node_data, j)}}
      [] tb = "run" ->
           {[S EXCEPT !.run = Update2(@, i, "run_complete_at", Some(t), "run_status", "SUCCESS")] :
               i \in {j \in Ids : HasId(S.run, j)}}
      [] tb = "calc" ->
           {[S EXCEPT !.calc = Update2(@, i, "processing_end_at", Some(t), "status", "success")] :
               i \in {j \in Ids : HasId(S.calc, j)}}
      [] tb = "event_data" ->
           UNION {{[S EXCEPT !.event_data = SetCol(@, i, "end_at", t)],
                   [S EXCEPT !.event_data = Update2(@, i, "end_at", Some(t), "event_data", EventData2)]} :
                  i \in {j \in Ids : HasId(S.event_data, j)}}

\* the base table entity e's query reads its changes from
TableOf(e) ==
    CASE e = E_SCEN -> {"scenario"}
      [] e = E_NODE -> {"node_data"}
      [] e = E_RUN -> {"run"}
      [] e = E_CALC -> {"calc"}
      [] e = E_EVT -> {"event_data"}
      [] e = E_TL -> {}

----------------------------------------------------------------------------
(* Cycle orchestrator and scheduler loop *)

Unit == Units[ent]

Steps == {"get_watermark", "extract", "transform", "load", "update_watermark"}

\* mutant: the block after the next one is started
NextBlockSkipping(i) ==
    IF i + 1 < Len(Units) THEN [pc |-> "get_watermark", ent |-> i + 2]
    ELSE [pc |-> "returned", ent |-> i]

\* where run_cycle continues once entity block i is over
NextBlock(i) ==
    IF i < Len(Units) THEN [pc |-> "get_watermark", ent |-> i + 1]
    ELSE [pc |-> "returned", ent |-> i]

\* mutant: the cursor commit sits in a finally clause, so a raising block commits too
AfterRaiseCommitting(i) ==
    IF pc = "update_watermark" THEN NextBlock(i)
    ELSE [pc |-> "update_watermark", ent |-> i]

\* mutant: one try around all six blocks, so the first exception ends the invocation
AfterRaiseEnding(i) == [pc |-> "returned", ent |-> i]

\* where control goes when a step of entity block i raises an Exception:
\* the block's except clause logs it and run_cycle goes on to the next block
AfterRaise(i) == NextBlock(i)

ghosts == <<trail, raised, wmAtStart, sinceNow, sincePrev, raisedPrev>>
harness == <<phase, lastLoad, firstRows>>
history == <<tgtAtStart, srcAtExtract, offered, dropped, late, counted, extractedAt,
             unconfirmed>>
coerce == <<fn, arg, ret, ins>>
sched == <<consecutive_failures, criticals, outcomes, wmDown, limit, exit,
           source_pool, srcDown>>

\* the column of an extracted row that identifies the source record
ExtractKey(e) ==
    CASE e = E_RUN -> "run_id"
      [] e = E_TL -> "source_key"
      [] OTHER -> "id"

Keys(e, rs) == {r[ExtractKey(e)] : r \in rs}

\* every record of entity e the source store holds, as its query returns it
AllRecords(e, S) == Changes(e, S, DefaultEpoch)

\* the timestamps of record r that entity e's query compares with since
Stamps(e, S, r) ==
    CASE e = E_SCEN ->
           {r.created_at, r.updated_at, r.submitted_at, r.locked_at, r.withdraw_at}
      [] e \in {E_NODE, E_EVT} -> {r.version_started_at, r.version_ended_at}
      [] e = E_RUN -> {r.run_at, r.run_complete_at}
      [] e = E_CALC -> {c.created_at : c \in {x \in S.calc : x.id = r.id}}
      [] e = E_TL -> {r.event_time}

\* record r has a relevant timestamp at or after s
Within(e, S, r, s) == \E T \in Stamps(e, S, r) : T # Null /\ T[1] >= s

\* the state when the daemon starts on a provisioned, empty target store
InitWith(events) ==
    /\ now = StartClock
    /\ wm = SeedWatermark({})
    /\ src = EmptySource
    /\ tgt = EmptyTarget
    /\ pc = "idle"
    /\ ent = 1
    /\ since = DefaultEpoch
    /\ rows = {}
    /\ transformed = {}
    /\ cycle = 0
    /\ budget = events
    /\ trail = [e \in Entities |-> {}]
    /\ raised = [e \in Entities |-> "none"]
    /\ wmAtStart = wm
    /\ sinceNow = [e \in Entities |-> Null]
    /\ sincePrev = [e \in Entities |-> Null]
    /\ raisedPrev = [e \in Entities |-> "none"]
    /\ phase = "ready"
    /\ lastLoad = [e |-> E_SCEN, batch |-> {}, before |-> {}, after |-> {}, at |-> now,
                   sent |-> {}, raised |-> FALSE, ret |-> Null, conns |-> 0]
    /\ firstRows = {}
    /\ tgtAtStart = tgt
    /\ srcAtExtract = src
    /\ offered = [e \in Entities |-> {}]
    /\ dropped = [e \in Entities |-> {}]
    /\ late = [e \in Entities |-> {}]
    /\ counted = [e \in Entities |-> 0]
    /\ extractedAt = [e \in Entities |-> Null]
    /\ unconfirmed = [e \in Entities |-> {}]

\* no coercion is under test
Uncalled == fn = "none" /\ arg = PyNone /\ ret = Null /\ ins = Null

\* main() before its loop, followed for a number of invocations
SchedInit(invocations) ==
    /\ consecutive_failures = 0
    /\ criticals = 0
    /\ outcomes = <<>>
    /\ wmDown = FALSE
    /\ limit = invocations
    /\ exit = Null
    /\ source_pool = NoPool
    /\ srcDown = FALSE

Init == InitWith(MaxEvents) /\ Uncalled /\ SchedInit(MaxCycles)

\* scheduler: the loop body calls run_cycle()
StartCycle ==
    /\ pc = "idle"
    /\ cycle < limit
    /\ pc' = "get_watermark"
    /\ ent' = 1
    /\ cycle' = cycle + 1
    /\ trail' = [e \in Entities |-> {}]
    /\ raised' = [e \in Entities |-> "none"]
    /\ wmAtStart' = wm
    /\ sincePrev' = sinceNow
    /\ sinceNow' = [e \in Entities |-> Null]
    /\ raisedPrev' = raised
    /\ tgtAtStart' = tgt
    /\ UNCHANGED <<now, wm, src, tgt, since, rows, transformed, budget>>
    /\ UNCHANGED <<srcAtExtract, offered, dropped, late, counted, extractedAt,
                   unconfirmed>>
    /\ UNCHANGED harness
    /\ UNCHANGED coerce
    /\ UNCHANGED sched

Returned(step) == trail' = [trail EXCEPT ![Unit] = @ \cup {step}]

\* since = get_watermark(<entity>)
GetWatermark ==
    /\ pc = "get_watermark"
    /\ ~wmDown
    /\ since' = get_watermark(wm, Unit)
    /\ sinceNow' = [sinceNow EXCEPT ![Unit] = Some(since')]
    /\ Returned("get_watermark")
    /\ pc' = "extract"
    /\ UNCHANGED <<now, wm, src, tgt, ent, rows, transformed, cycle, budget,
                   raised, wmAtStart, sincePrev, raisedPrev>>
    /\ UNCHANGED harness
    /\ UNCHANGED coerce
    /\ UNCHANGED sched
    /\ UNCHANGED history

\* mutant: transform and load run for an empty extraction as well
AfterExtractTransforming(b) == "transform"

\* "if rows:": an empty extraction goes straight to update_watermark
AfterExtract(b) == IF b # {} THEN "transform" ELSE "update_watermark"

\* rows = extract_<entity>(since); "if rows:" decides whether transform and load run
Extract ==
    /\ pc = "extract"
    /\ \E b \in Limited(Unit, Changes(Unit, src, since)) :
          /\ rows' = b
          /\ pc' = AfterExtract(b)
          /\ dropped' = [dropped EXCEPT ![Unit] =
                            @ \cup (Keys(Unit, Changes(Unit, src, since)) \ Keys(Unit, b))]
    /\ srcAtExtract' = src
    /\ extractedAt' = [extractedAt EXCEPT ![Unit] = Some(now)]
    /\ Returned("extract")
    /\ UNCHANGED <<now, wm, src, tgt, ent, since, transformed, cycle, budget,
                   raised, wmAtStart, sinceNow, sincePrev, raisedPrev>>
    /\ UNCHANGED <<tgtAtStart, offered, late, counted, unconfirmed>>
    /\ UNCHANGED harness
    /\ UNCHANGED coerce
    /\ UNCHANGED sched

\* the except clause of the current block
Raise(step) ==
    /\ raised' = [raised EXCEPT ![Unit] = step]
    /\ pc' = AfterRaise(ent).pc
    /\ ent' = AfterRaise(ent).ent

\* transformed = transform_<entity>(rows)
TransformStep ==
    /\ pc = "transform"
    /\ IF TransformRaises(Unit, rows)
       THEN /\ Raise("transform")
            /\ UNCHANGED <<transformed, trail>>
       ELSE /\ transformed' = Transform(Unit, rows)
            /\ Returned("transform")
            /\ pc' = "load"
            /\ UNCHANGED <<ent, raised>>
    /\ UNCHANGED <<now, wm, src, tgt, since, rows, cycle, budget,
                   wmAtStart, sinceNow, sincePrev, raisedPrev>>
    /\ UNCHANGED harness
    /\ UNCHANGED coerce
    /\ UNCHANGED sched
    /\ UNCHANGED history

\* n = load_<entity>(transformed): one transaction on the target store
LoadStep ==
    /\ pc = "load"
    /\ tgt' = [tgt EXCEPT ![Unit] =
                 LoadCall(Unit, @, transformed, now, transformed, FALSE).tbl]
    /\ Returned("load")
    /\ pc' = "update_watermark"
    /\ UNCHANGED <<now, wm, src, ent, since, rows, transformed, cycle, budget,
                   raised, wmAtStart, sinceNow, sincePrev, raisedPrev>>
    /\ UNCHANGED harness
    /\ UNCHANGED coerce
    /\ UNCHANGED sched
    /\ UNCHANGED history

\* update_watermark(<entity>, len(rows)); the block is over
Commit ==
    /\ pc = "update_watermark"
    /\ wm' = update_watermark(wm, Unit, Cardinality(rows), now)
    /\ Returned("update_watermark")
    /\ pc' = NextBlock(ent).pc
    /\ ent' = NextBlock(ent).ent
    /\ offered' = [offered EXCEPT ![Unit] = rows]
    /\ counted' = [counted EXCEPT ![Unit] = @ + Cardinality(rows)]
    /\ late' = [late EXCEPT ![Unit] =
                  @ \cup Keys(Unit, {r \in AllRecords(Unit, src) :
                                      /\ r[ExtractKey(Unit)] \notin
                                            Keys(Unit, AllRecords(Unit, srcAtExtract))
                                      /\ ~Within(Unit, src, r, now - OVERLAP_SEC)})]
    /\ UNCHANGED <<now, src, tgt, since, rows, transformed, cycle, budget,
                   raised, wmAtStart, sinceNow, sincePrev, raisedPrev>>
    /\ unconfirmed' = [unconfirmed EXCEPT ![Unit] = {}]
    /\ UNCHANGED <<tgtAtStart, srcAtExtract, dropped, extractedAt>>
    /\ UNCHANGED harness
    /\ UNCHANGED coerce
    /\ UNCHANGED sched

\* what is loaded and not confirmed by a cursor commit once step has raised
Unconfirmed(step) ==
    IF step = "update_watermark" /\ "load" \in trail[Unit]
    THEN [unconfirmed EXCEPT ![Unit] = rows]
    ELSE unconfirmed

\* a store round trip (connect, query, paged insert, commit) raises: the
\* statement's transaction is rolled back, so neither store changes
StoreFault ==
    /\ pc \in {"get_watermark", "extract", "load", "update_watermark"}
    /\ budget > 0
    /\ budget' = budget - 1
    /\ Raise(pc)
    /\ unconfirmed' = Unconfirmed(pc)
    /\ UNCHANGED <<now, wm, src, tgt, since, rows, transformed, cycle,
                   trail, wmAtStart, sinceNow, sincePrev, raisedPrev>>
    /\ UNCHANGED <<tgtAtStart, srcAtExtract, offered, dropped, late, counted,
                   extractedAt>>
    /\ UNCHANGED harness
    /\ UNCHANGED coerce
    /\ UNCHANGED sched

\* scheduler, except Exception: consecutive_failures += 1
OnRaise(failures) == failures + 1

\* mutant: the counter is left alone when run_cycle returns
OnReturnKeeping(failures) == failures

\* scheduler, after run_cycle(): consecutive_failures = 0
OnReturn(failures) == 0

\* mutant: the loop is left once the escalation has been logged
AfterHandlerGivingUp(failures) ==
    IF failures >= MAX_CONSECUTIVE_FAILURES THEN "exited" ELSE "idle"

\* scheduler: where control is after the except Exception handler, whether or
\* not it logged the escalation: it falls through to the sleep and loops
AfterHandler(failures) == "idle"

\* mutant: the sleep grows with the number of failures in a row
SleepLengthBackoff(failures) == POLL_INTERVAL_SEC * (failures + 1)

\* scheduler: the argument of time.sleep at the end of the loop body
SleepLength(failures) == POLL_INTERVAL_SEC

\* scheduler: run_cycle returned; the counter is reset; time.sleep(POLL_INTERVAL_SEC)
Sleep ==
    /\ pc = "returned"
    /\ consecutive_failures' = OnReturn(consecutive_failures)
    /\ outcomes' = Append(outcomes, [raised |-> FALSE, down |-> wmDown, cut |-> srcDown])
    /\ now' = now + SleepLength(consecutive_failures')
    /\ pc' = "idle"
    /\ UNCHANGED <<wm, src, tgt, ent, since, rows, transformed, cycle, budget, ghosts>>
    /\ UNCHANGED <<criticals, wmDown, limit, exit, source_pool, srcDown>>
    /\ UNCHANGED harness
    /\ UNCHANGED coerce
    /\ UNCHANGED history

\* scheduler: an Exception leaves run_cycle, from the statements after its
\* last block; the handler counts it, logs the escalation at the threshold,
\* and the loop sleeps
CycleRaise ==
    /\ pc = "returned"
    /\ consecutive_failures' = OnRaise(consecutive_failures)
    /\ criticals' = IF consecutive_failures' >= MAX_CONSECUTIVE_FAILURES
                    THEN criticals + 1 ELSE criticals
    /\ outcomes' = Append(outcomes, [raised |-> TRUE, down |-> wmDown, cut |-> srcDown])
    /\ now' = now + SleepLength(consecutive_failures')
    /\ pc' = AfterHandler(consecutive_failures')
    /\ UNCHANGED <<wm, src, tgt, ent, since, rows, transformed, cycle, budget, ghosts>>
    /\ UNCHANGED <<wmDown, limit, exit, source_pool, srcDown>>
    /\ UNCHANGED harness
    /\ UNCHANGED coerce
    /\ UNCHANGED history

\* the target database, which holds etl_watermark, stops accepting connections
Outage ==
    /\ pc = "idle"
    /\ ~wmDown
    /\ wmDown' = TRUE
    /\ UNCHANGED <<now, wm, src, tgt, pc, ent, since, rows, transformed, cycle, budget,
                   ghosts>>
    /\ UNCHANGED <<consecutive_failures, criticals, outcomes, limit, exit,
                   source_pool, srcDown>>
    /\ UNCHANGED harness
    /\ UNCHANGED coerce
    /\ UNCHANGED history

\* get_watermark(<entity>) while the store is unreachable: psycopg2.connect
\* raises inside the block's try
Unreachable ==
    /\ pc = "get_watermark"
    /\ wmDown
    /\ Raise("get_watermark")
    /\ UNCHANGED <<now, wm, src, tgt, since, rows, transformed, cycle, budget,
                   trail, wmAtStart, sinceNow, sincePrev, raisedPrev>>
    /\ UNCHANGED harness
    /\ UNCHANGED coerce
    /\ UNCHANGED sched
    /\ UNCHANGED history

\* time passes between an entity's extraction and its cursor commit
Tick ==
    /\ pc = "update_watermark"
    /\ budget > 0
    /\ budget' = budget - 1
    /\ now' = now + TickSec
    /\ UNCHANGED <<wm, src, tgt, pc, ent, since, rows, transformed, cycle, ghosts>>
    /\ UNCHANGED harness
    /\ UNCHANGED coerce
    /\ UNCHANGED sched
    /\ UNCHANGED history

\* the operational application writes to the source store: before a cycle, or
\* between an entity's extraction and its cursor commit
SourceWrite ==
    /\ pc \in {"idle", "update_watermark"}
    /\ budget > 0
    /\ budget' = budget - 1
    /\ \E tb \in (IF pc = "idle" THEN Tables ELSE TableOf(Unit)) :
          \/ \E lag \in Lags : src' \in Inserts(src, tb, now - lag)
          \/ src' \in Updates(src, tb, now)
    /\ UNCHANGED <<now, wm, tgt, pc, ent, since, rows, transformed, cycle, ghosts>>
    /\ UNCHANGED harness
    /\ UNCHANGED coerce
    /\ UNCHANGED sched
    /\ UNCHANGED history

\* setup(): SCHEMA_SQL run again; every CREATE is IF NOT EXISTS
Setup ==
    /\ pc = "idle"
    /\ wm' = SeedWatermark(wm)
    /\ UNCHANGED <<now, src, tgt, pc, ent, since, rows, transformed, cycle, budget,
                   ghosts>>
    /\ UNCHANGED harness
    /\ UNCHANGED coerce
    /\ UNCHANGED sched
    /\ UNCHANGED history

Next ==
    \/ StartCycle
    \/ GetWatermark
    \/ Extract
    \/ TransformStep
    \/ LoadStep
    \/ Commit
    \/ StoreFault
    \/ Sleep
    \/ Tick
    \/ SourceWrite
    \/ Setup

Spec == Init /\ [][Next]_vars

----------------------------------------------------------------------------
(* The scheduler loop over many invocations: no source writes, invocations
   that raise, and an outage of the watermark store *)

InitSched == InitWith(0) /\ Uncalled /\ SchedInit(MaxSchedCycles)

NextSched ==
    \/ StartCycle
    \/ GetWatermark
    \/ Extract
    \/ Commit
    \/ Sleep
    \/ CycleRaise
    \/ Outage
    \/ Unreachable

SpecSched == InitSched /\ [][NextSched]_vars

----------------------------------------------------------------------------
(* Termination: SIGINT reaches the main thread as a KeyboardInterrupt raised
   at the statement it is executing *)

\* the positions inside the try statement of the scheduler's loop body: the
\* call of run_cycle() up to the reset of the counter
InTry(position) == position \in Steps \cup {"returned"}

\* exit status of the interpreter when a KeyboardInterrupt reaches the top of
\* the main thread: 1, or the status of a process killed by SIGINT
UncaughtStatus == {1, 130}

\* the exit statuses a KeyboardInterrupt raised at a position can end in.
\* run_cycle's blocks catch Exception only, so inside the try it reaches
\* "except KeyboardInterrupt: sys.exit(0)"; the sleep, the statements before
\* the loop and the loop header are outside every try
ExitStatuses(position) ==
    IF InTry(position) THEN {0} ELSE UncaughtStatus

\* a KeyboardInterrupt is raised in the main thread
Interrupt ==
    /\ pc # "exited"
    /\ \E status \in ExitStatuses(pc) : exit' = Some(status)
    /\ pc' = "exited"
    /\ UNCHANGED <<now, wm, src, tgt, ent, since, rows, transformed, cycle, budget,
                   ghosts>>
    /\ UNCHANGED <<consecutive_failures, criticals, outcomes, wmDown, limit,
                   source_pool, srcDown>>
    /\ UNCHANGED harness
    /\ UNCHANGED coerce
    /\ UNCHANGED history

\* one invocation more than the escalation threshold needs
InitSignal == InitWith(0) /\ Uncalled /\ SchedInit(MaxSchedCycles + 1)

NextSignal ==
    \/ StartCycle
    \/ GetWatermark
    \/ Extract
    \/ Commit
    \/ Sleep
    \/ CycleRaise
    \/ Outage
    \/ Unreachable
    \/ Interrupt

SpecSignal == InitSignal /\ [][NextSignal]_vars

\* the steps of the process itself: a single thread that executes its next
\* statement, and a sleep that ends
Proceed ==
    \/ StartCycle
    \/ GetWatermark
    \/ Extract
    \/ Commit
    \/ Sleep
    \/ CycleRaise
    \/ Unreachable

SpecSignalFair == SpecSignal /\ WF_vars(Proceed)

----------------------------------------------------------------------------
(* Outages of the source store: the extractors read it through the pooled
   connections of db.py; the store goes away and comes back between cycles *)

\* run_cycle invocations followed
MaxOutageCycles == 8

InitOutage == InitWith(0) /\ Uncalled /\ SchedInit(MaxOutageCycles)

\* rows = extract_<entity>(since), the query sent through query_source
QuerySource ==
    /\ pc = "extract"
    /\ LET call == query_source(source_pool, srcDown) IN
         /\ source_pool' = call.pool
         /\ IF call.raised
            THEN /\ Raise("extract")
                 /\ UNCHANGED <<rows, dropped, srcAtExtract, extractedAt, trail>>
            ELSE /\ \E b \in Limited(Unit, Changes(Unit, src, since)) :
                      /\ rows' = b
                      /\ pc' = AfterExtract(b)
                      /\ dropped' = [dropped EXCEPT ![Unit] =
                            @ \cup (Keys(Unit, Changes(Unit, src, since)) \ Keys(Unit, b))]
                 /\ srcAtExtract' = src
                 /\ extractedAt' = [extractedAt EXCEPT ![Unit] = Some(now)]
                 /\ Returned("extract")
                 /\ UNCHANGED <<ent, raised>>
    /\ UNCHANGED <<now, wm, src, tgt, since, transformed, cycle, budget,
                   wmAtStart, sinceNow, sincePrev, raisedPrev>>
    /\ UNCHANGED <<tgtAtStart, offered, late, counted, unconfirmed>>
    /\ UNCHANGED <<consecutive_failures, criticals, outcomes, wmDown, limit, exit,
                   srcDown>>
    /\ UNCHANGED harness
    /\ UNCHANGED coerce

\* the source store becomes unreachable; the connections open to it are dead
SourceOutage ==
    /\ pc = "idle"
    /\ ~srcDown
    /\ srcDown' = TRUE
    /\ source_pool' = [source_pool EXCEPT !.idle = [i \in DOMAIN @ |-> "broken"]]
    /\ outcomes' = IF outcomes = <<>> THEN outcomes
                   ELSE [outcomes EXCEPT ![Len(outcomes)].cut = TRUE]
    /\ UNCHANGED <<now, wm, src, tgt, pc, ent, since, rows, transformed, cycle, budget,
                   ghosts>>
    /\ UNCHANGED <<consecutive_failures, criticals, wmDown, limit, exit>>
    /\ UNCHANGED harness
    /\ UNCHANGED coerce
    /\ UNCHANGED history

\* the source store is reachable again
SourceRepair ==
    /\ pc = "idle"
    /\ srcDown
    /\ srcDown' = FALSE
    /\ UNCHANGED <<now, wm, src, tgt, pc, ent, since, rows, transformed, cycle, budget,
                   ghosts>>
    /\ UNCHANGED <<consecutive_failures, criticals, outcomes, wmDown, limit, exit,
                   source_pool>>
    /\ UNCHANGED harness
    /\ UNCHANGED coerce
    /\ UNCHANGED history

NextOutage ==
    \/ StartCycle
    \/ GetWatermark
    \/ QuerySource
    \/ Commit
    \/ Sleep
    \/ SourceOutage
    \/ SourceRepair

SpecOutage == InitOutage /\ [][NextOutage]_vars

----------------------------------------------------------------------------
(* Loader harness: the load operations applied to batches the extractors and
   transformers can produce, each batch loaded once or twice in succession,
   with the source store and the clock moving in between *)

pipeline == <<wm, pc, ent, since, rows, transformed, cycle, ghosts, history, coerce,
              sched>>

InitLoad == InitWith(MaxLoadEvents) /\ Uncalled /\ SchedInit(MaxCycles)

\* the rows of table after that carry a key no row of table before carries
Inserted(e, before, after) ==
    {x \in after : \A y \in before : y[KeyOf(e)] # x[KeyOf(e)]}

\* what the harness keeps of a call of load_<entity>(batch)
Called(e, batch, sent, call) ==
    [e |-> e, batch |-> batch, before |-> tgt[e], after |-> call.tbl, at |-> now,
     sent |-> sent, raised |-> call.raised, ret |-> call.ret, conns |-> call.conns]

\* load_<entity>(batch) for a batch of the entity's transformed changes
LoadBatch ==
    /\ \E e \in Entities :
         \E rs \in SUBSET Changes(e, src, DefaultEpoch) :
            /\ ~TransformRaises(e, rs)
            /\ LET batch == Transform(e, rs)
                   call == LoadCall(e, tgt[e], batch, now, batch, FALSE)
               IN /\ tgt' = [tgt EXCEPT ![e] = call.tbl]
                  /\ lastLoad' = Called(e, batch, batch, call)
            /\ firstRows' = firstRows \cup Inserted(E_SCEN, tgt[E_SCEN], tgt'[E_SCEN])
    /\ phase' = "once"
    /\ UNCHANGED <<now, src, budget, pipeline>>

\* load_<entity>(batch) while the target store fails: at the statement of some
\* page or at the commit
LoadFault ==
    /\ \E e \in Entities :
         \E rs \in SUBSET Changes(e, src, DefaultEpoch) :
            /\ ~TransformRaises(e, rs)
            /\ LET batch == Transform(e, rs) IN
               \E sent \in FailurePoints(batch) :
                  LET call == LoadCall(e, tgt[e], batch, now, sent, TRUE)
                  IN /\ tgt' = [tgt EXCEPT ![e] = call.tbl]
                     /\ lastLoad' = Called(e, batch, sent, call)
                     /\ phase' = IF call.raised THEN "raised" ELSE "once"
            /\ firstRows' = firstRows \cup Inserted(E_SCEN, tgt[E_SCEN], tgt'[E_SCEN])
    /\ UNCHANGED <<now, src, budget, pipeline>>

\* the batch last loaded is loaded again, no other load in between
LoadAgain ==
    /\ phase = "once"
    /\ tgt' = [tgt EXCEPT ![lastLoad.e] =
                 LoadCall(lastLoad.e, @, lastLoad.batch, now, lastLoad.batch, FALSE).tbl]
    /\ phase' = "twice"
    /\ UNCHANGED <<now, src, budget, lastLoad, firstRows, pipeline>>

LoadSourceWrite ==
    /\ budget > 0
    /\ budget' = budget - 1
    /\ \E tb \in Tables : src' \in Inserts(src, tb, now) \cup Updates(src, tb, now)
    /\ UNCHANGED <<now, tgt, harness, pipeline>>

LoadClock ==
    /\ budget > 0
    /\ budget' = budget - 1
    /\ now' = now + TickSec
    /\ UNCHANGED <<src, tgt, harness, pipeline>>

NextLoad ==
    \/ LoadBatch
    \/ LoadFault
    \/ LoadAgain
    \/ LoadSourceWrite
    \/ LoadClock

SpecLoad == InitLoad /\ [][NextLoad]_vars

----------------------------------------------------------------------------
(* Watermark harness: get_watermark, update_watermark and setup() called on
   the provisioned watermark table in any order, with rows of the table
   deleted by hand in between *)

\* calls of update_watermark, deletions and clock steps allowed
MaxWmEvents == 3

aside == <<src, tgt, pc, ent, since, rows, transformed, cycle, ghosts, history,
           harness, sched, ins>>

InitWatermark == InitWith(MaxWmEvents) /\ Uncalled /\ SchedInit(0)

\* get_watermark(e)
WmRead ==
    /\ \E e \in Entities :
          /\ arg' = <<e>>
          /\ ret' = Some(get_watermark(wm, e))
    /\ fn' = "get_watermark"
    /\ UNCHANGED <<now, wm, budget, aside>>

\* update_watermark(e, n)
WmWrite ==
    /\ budget > 0
    /\ budget' = budget - 1
    /\ \E e \in Entities, n \in 0..RowCap :
          /\ arg' = <<e, n>>
          /\ wm' = update_watermark(wm, e, n, now)
    /\ fn' = "update_watermark"
    /\ ret' = Null
    /\ UNCHANGED <<now, aside>>

\* setup()
WmSetup ==
    /\ wm' = SeedWatermark(wm)
    /\ fn' = "setup"
    /\ arg' = <<>>
    /\ ret' = Null
    /\ UNCHANGED <<now, budget, aside>>

\* a row of etl_watermark is deleted by hand
WmRowDeleted ==
    /\ budget > 0
    /\ budget' = budget - 1
    /\ \E x \in wm :
          /\ wm' = wm \ {x}
          /\ arg' = <<x.table_name>>
    /\ fn' = "delete"
    /\ ret' = Null
    /\ UNCHANGED <<now, aside>>

WmClock ==
    /\ budget > 0
    /\ budget' = budget - 1
    /\ now' = now + TickSec
    /\ fn' = "none"
    /\ arg' = PyNone
    /\ ret' = Null
    /\ UNCHANGED <<wm, aside>>

NextWatermark ==
    \/ WmRead
    \/ WmWrite
    \/ WmSetup
    \/ WmRowDeleted
    \/ WmClock

SpecWatermark == InitWatermark /\ [][NextWatermark]_vars

----------------------------------------------------------------------------
(* Provisioning next to the running daemon: setup() is a program of its own
   and can be run at any time; rows of etl_watermark can be deleted by hand *)

NextProvision ==
    \/ StartCycle
    \/ GetWatermark
    \/ Extract
    \/ TransformStep
    \/ LoadStep
    \/ Commit
    \/ StoreFault
    \/ Sleep
    \/ SourceWrite
    \/ WmSetup
    \/ WmRowDeleted

SpecProvision == Init /\ [][NextProvision]_vars

----------------------------------------------------------------------------
(* Retried blocks: invocations in which update_watermark raises after the
   load has committed, on a source store the application writes to *)

\* source writes allowed
MaxRetryEvents == 2

InitRetry == InitWith(MaxRetryEvents) /\ Uncalled /\ SchedInit(MaxCycles)

\* update_watermark(<entity>, len(rows)) raises after load_<entity> has
\* committed, in an invocation that is not the last one followed
CommitFault ==
    /\ pc = "update_watermark"
    /\ "load" \in trail[Unit]
    /\ cycle < limit
    /\ Raise("update_watermark")
    /\ unconfirmed' = Unconfirmed("update_watermark")
    /\ UNCHANGED <<now, wm, src, tgt, since, rows, transformed, cycle, budget,
                   trail, wmAtStart, sinceNow, sincePrev, raisedPrev>>
    /\ UNCHANGED <<tgtAtStart, srcAtExtract, offered, dropped, late, counted,
                   extractedAt>>
    /\ UNCHANGED harness
    /\ UNCHANGED coerce
    /\ UNCHANGED sched

NextRetry ==
    \/ StartCycle
    \/ GetWatermark
    \/ Extract
    \/ TransformStep
    \/ LoadStep
    \/ Commit
    \/ CommitFault
    \/ Sleep
    \/ SourceWrite

SpecRetry == InitRetry /\ [][NextRetry]_vars

----------------------------------------------------------------------------
(* Extractor harness: the extractors called, with a window start, on a source
   store the application writes to, the clock moving in between *)

\* source writes allowed, and clock steps allowed
MaxExtractEvents == 3
MaxExtractTicks == 1

\* the window starts an extractor is called with at clock reading t: the
\* default epoch (everything) and t (what is being written now)
Sinces(t) == {DefaultEpoch, t}

InitExtract == InitWith(MaxExtractEvents) /\ Uncalled /\ SchedInit(0)

\* rows = extract_<entity>(since)
ExtractCall ==
    /\ \E i \in 1..Len(Units), s \in Sinces(now) :
          /\ ent' = i
          /\ since' = s
          /\ arg' = <<Units[i], s>>
          /\ \E b \in Limited(Units[i], Changes(Units[i], src, s)) :
                /\ rows' = b
                /\ ret' = Some(b)
    /\ fn' = "extract"
    /\ srcAtExtract' = src
    /\ UNCHANGED <<now, wm, src, tgt, pc, transformed, cycle, budget, ghosts, ins>>
    /\ UNCHANGED <<tgtAtStart, offered, dropped, late, counted, extractedAt,
                   unconfirmed>>
    /\ UNCHANGED harness
    /\ UNCHANGED sched

ExtractClock ==
    /\ now < StartClock + MaxExtractTicks * TickSec
    /\ now' = now + TickSec
    /\ UNCHANGED <<src, tgt, budget, harness, pipeline>>

NextExtract ==
    \/ ExtractCall
    \/ LoadSourceWrite
    \/ ExtractClock

SpecExtract == InitExtract /\ [][NextExtract]_vars

----------------------------------------------------------------------------
(* Coercion harness: one call of a coercion or of a flattener on a value, and
   the insert of the columns a flattener returned *)

\* the values a JSON document can hold under a key
Values ==
    {PyNone, PyBool(TRUE), PyBool(FALSE), PyInt(0), PyInt(1), PyInt(2024), PyHuge,
     PyFloat(0), PyFloat(35), PyInf,
     PyStr(""), PyStr("true"), PyStr("True"), PyStr("YES"), PyStr("1"), PyStr("0"),
     PyStr("3.5"), PyStr("2024"), PyStr("maybe"), PyStr("mg"),
     PyList(<<>>), PyList(<<PyInt(1)>>), PyDict(<<>>), PyDict(<< <<"a", PyInt(1)>> >>)}

\* the values of the payload objects
PayloadValues ==
    {PyNone, PyBool(TRUE), PyInt(2024), PyHuge, PyFloat(35), PyInf, PyStr("mg"),
     PyStr("3.5"), PyStr("maybe"), PyDict(<< <<"a", PyInt(1)>> >>)}

\* the keys flatten_input_data and flatten_event_data read, by the coercion
\* applied to the value
InputKeys ==
    [numeric |-> {"value"},
     int |-> {"start_year", "end_year"},
     bool |-> {"actuals_flag", "pfs_flag", "ppc_flag"},
     text |-> {"unit", "input_type", "timeframe", "dosing_type", "curve_type",
               "selected_output"}]
EventKeys ==
    [numeric |-> {"share_value", "erosion_rate", "steady_state", "sob_value"},
     int |-> {"year"},
     bool |-> {},
     text |-> {"entry_quarter", "launch_date"}]
Known(keys) == keys.numeric \cup keys.int \cup keys.bool \cup keys.text

\* the keys of the payload objects: one known key of each kind and one the
\* flattener does not know
InputPayloadKeys == {"value", "start_year", "actuals_flag", "unit", "note"}
EventPayloadKeys == {"share_value", "year", "entry_quarter", "note"}

\* the objects with up to MaxKeys keys of keys
Objects(keys) ==
    {PyDict(d) : d \in {q \in UNION {[1..n -> keys \X PayloadValues] : n \in 0..MaxKeys} :
                          \A i, j \in 1..Len(q) : q[i][1] = q[j][1] => i = j}}

\* payloads that are no object: JSON null, scalars, arrays, and JSONB that
\* arrives as text, parseable or not
Shapeless(keys) ==
    {PyNone, PyInt(1), PyBool(TRUE), PyList(<<PyInt(1)>>), PyStr("abc"), PyStr("3"),
     PyText(<<Punct("{"), Str("value"), Punct(":")>>)}
    \cup {PyText(json_dumps(o)) : o \in {x \in Objects(keys) : Len(x.d) <= 1}}

Coercions == {"safe_bool", "safe_numeric", "safe_int"}
Flatteners == {"flatten_input_data", "flatten_event_data"}

KeysOf(f) == IF f = "flatten_input_data" THEN InputKeys ELSE EventKeys

InitCoerce ==
    /\ InitWith(0)
    /\ \/ fn \in Coercions /\ arg \in Values
       \/ fn = "flatten_input_data"
          /\ arg \in Objects(InputPayloadKeys) \cup Shapeless(InputPayloadKeys)
       \/ fn = "flatten_event_data"
          /\ arg \in Objects(EventPayloadKeys) \cup Shapeless(EventPayloadKeys)
    /\ ret = Null
    /\ ins = Null
    /\ SchedInit(0)

\* the column types of the flattened columns in SCHEMA_SQL
ColumnType(c) ==
    CASE c \in {"inp_value", "evt_share_value", "evt_erosion_rate", "evt_steady_state",
                "evt_sob_value"} -> "NUMERIC"
      [] c \in {"inp_start_year", "inp_end_year", "evt_year"} -> "INT"
      [] c \in {"inp_actuals_flag", "inp_pfs_flag", "inp_ppc_flag"} -> "BOOLEAN"
      [] c \in {"input_data_full_text", "event_data_full_text"} -> "TEXT"
      [] OTHER -> "VARCHAR"

\* execute_values with value v for a column of type ty: psycopg2 has no
\* adapter for a dict, and an int beyond 32 bits does not fit an INT column
InsertRaises(ty, v) ==
    \/ v.t = "dict"
    \/ ty = "INT" /\ v.t = "int" /\ IsHuge(v)

\* the insert of one row with the flattened columns flat
InsertOutcome(flat) ==
    IF \E c \in DOMAIN flat : InsertRaises(ColumnType(c), flat[c])
    THEN PyRaise("DatabaseError")
    ELSE PyInt(1)

SafeBool ==
    /\ fn = "safe_bool" /\ ret = Null
    /\ ret' = Some(safe_bool(arg))
    /\ UNCHANGED <<now, src, tgt, budget, harness, fn, arg, ins>>
    /\ UNCHANGED <<wm, pc, ent, since, rows, transformed, cycle, ghosts, history, sched>>

SafeNumeric ==
    /\ fn = "safe_numeric" /\ ret = Null
    /\ ret' = Some(safe_numeric(arg))
    /\ UNCHANGED <<now, src, tgt, budget, harness, fn, arg, ins>>
    /\ UNCHANGED <<wm, pc, ent, since, rows, transformed, cycle, ghosts, history, sched>>

SafeInt ==
    /\ fn = "safe_int" /\ ret = Null
    /\ ret' = Some(safe_int(arg))
    /\ UNCHANGED <<now, src, tgt, budget, harness, fn, arg, ins>>
    /\ UNCHANGED <<wm, pc, ent, since, rows, transformed, cycle, ghosts, history, sched>>

\* flat = flatten_input_data(r["input_data"]): a column that raises leaves the
\* function with the exception
FlattenInput ==
    /\ fn = "flatten_input_data" /\ ret = Null
    /\ ret' = Some(flatten_input_data(arg))
    /\ UNCHANGED <<now, src, tgt, budget, harness, fn, arg, ins>>
    /\ UNCHANGED <<wm, pc, ent, since, rows, transformed, cycle, ghosts, history, sched>>

FlattenEvent ==
    /\ fn = "flatten_event_data" /\ ret = Null
    /\ ret' = Some(flatten_event_data(arg))
    /\ UNCHANGED <<now, src, tgt, budget, harness, fn, arg, ins>>
    /\ UNCHANGED <<wm, pc, ent, since, rows, transformed, cycle, ghosts, history, sched>>

\* load_node_data / load_event_data of the row the flattened columns went into
InsertFlat ==
    /\ fn \in Flatteners /\ ret # Null /\ ins = Null
    /\ ~FlattenRaises(ret[1])
    /\ ins' = Some(InsertOutcome(ret[1]))
    /\ UNCHANGED <<now, src, tgt, budget, harness, fn, arg, ret>>
    /\ UNCHANGED <<wm, pc, ent, since, rows, transformed, cycle, ghosts, history, sched>>

NextCoerce ==
    \/ SafeBool
    \/ SafeNumeric
    \/ SafeInt
    \/ FlattenInput
    \/ FlattenEvent
    \/ InsertFlat

SpecCoerce == InitCoerce /\ [][NextCoerce]_vars

----------------------------------------------------------------------------
(* Properties *)

WmRow(w, e) == CHOOSE x \in WmRows(w, e) : TRUE

Committed(e) == "update_watermark" \in trail[e]

\* C1: for every entity the stored cursor last_fetched_at never decreases, over
\* committed, empty and failed cycles and re-runs of provisioning; a commit made
\* at a later clock reading than the stored cursor makes it strictly greater; and
\* get_watermark never returns less than it returned in the invocation before.
C1_CursorMonotonic ==
    /\ [][\A e \in Entities :
            /\ WmRows(wm', e) # {}
            /\ Cursor(wm', e) >= Cursor(wm, e)
            /\ (Committed(e)' /\ ~Committed(e) /\ now > Cursor(wm, e))
                  => Cursor(wm', e) > Cursor(wm, e)]_vars
    /\ [](\A e \in Entities :
            (sinceNow[e] # Null /\ sincePrev[e] # Null) => sinceNow[e][1] >= sincePrev[e][1])

\* an entity committed in two invocations, the second at a later clock reading
C1_Witness ==
    \E e \in Entities :
        /\ Committed(e)
        /\ Cursor(wmAtStart, e) > DefaultEpoch
        /\ Cursor(wm, e) > Cursor(wmAtStart, e)
        /\ sinceNow[e] # Null /\ sincePrev[e] # Null /\ sinceNow[e][1] > sincePrev[e][1]

\* C2: update_watermark(E) has returned in an invocation only if get_watermark and
\* extract, and transform and load when rows were extracted, returned for E in that
\* invocation and none raised; when a step of E raised, E's watermark row is as it
\* was when the invocation started, and the next invocation's get_watermark(E)
\* returns what it returned in the failed one.
C2_CommitOnlyAfterSuccess ==
    \A e \in Entities :
        /\ Committed(e) =>
              /\ raised[e] = "none"
              /\ {"get_watermark", "extract"} \subseteq trail[e]
              /\ WmRow(wm, e).rows_last_run > 0 => {"transform", "load"} \subseteq trail[e]
        /\ raised[e] # "none" => WmRows(wm, e) = WmRows(wmAtStart, e)
        /\ (raisedPrev[e] # "none" /\ sincePrev[e] # Null /\ sinceNow[e] # Null)
              => sinceNow[e] = sincePrev[e]

\* an entity whose load raised in the previous invocation commits rows in this one
C2_Witness ==
    \E e \in Entities :
        /\ raisedPrev[e] = "load"
        /\ sincePrev[e] # Null
        /\ Committed(e)
        /\ WmRow(wm, e).rows_last_run > 0

\* the steps of a block that ran to its end
Complete(e) ==
    /\ raised[e] = "none"
    /\ {"get_watermark", "extract", "update_watermark"} \subseteq trail[e]
    /\ WmRow(wm, e).rows_last_run > 0 => {"transform", "load"} \subseteq trail[e]

\* C3: when run_cycle returns, every entity none of whose own steps raised has run
\* its whole sequence in that invocation, whatever raised for the other entities;
\* an exception of an entity block never ends the invocation.
C3_FailureIsolation ==
    /\ pc = "returned" => \A e \in Entities : raised[e] # "none" \/ Complete(e)
    /\ \A i \in 1..Len(Units) :
          (i < ent /\ pc \notin {"idle", "returned"}) =>
              (raised[Units[i]] # "none" \/ Complete(Units[i]))

\* the first block's extraction raised and a later block loaded rows and committed
C3_Witness ==
    /\ pc = "returned"
    /\ raised[E_SCEN] = "extract"
    /\ \E e \in Entities \ {E_SCEN} : Complete(e) /\ "load" \in trail[e]

\* the column a load's conflict action sets to NOW(), "" when it sets none
StampColumn(e) ==
    CASE e \in {E_SCEN, E_RUN} -> "etl_updated_at"
      [] e \in {E_NODE, E_EVT} -> "etl_loaded_at"
      [] OTHER -> ""

\* a table without the values of that column
Unstamped(e, tbl) ==
    IF StampColumn(e) = "" THEN tbl
    ELSE {[x EXCEPT ![StampColumn(e)] = Null] : x \in tbl}

\* C4 as stated: a batch loaded a second time in succession leaves the table
\* exactly as the first load left it.
C4_LoadTwiceSameState == phase = "twice" => tgt[lastLoad.e] = lastLoad.after

\* C4 as amended: a batch loaded a second time in succession leaves the table as
\* the first load left it, except that the four upserting loads set the load
\* timestamp of the conflicting rows (etl_updated_at of dim_scenario and
\* fact_run_summary, etl_loaded_at of the two history tables) to the time of the
\* second load; the two insert-only loads leave the table exactly the same.
C4_LoadTwiceSameData ==
    phase = "twice" =>
        /\ Unstamped(lastLoad.e, tgt[lastLoad.e]) = Unstamped(lastLoad.e, lastLoad.after)
        /\ \A x \in tgt[lastLoad.e] :
              \/ x \in lastLoad.after
              \/ /\ Conflicts(lastLoad.batch, KeyOf(lastLoad.e), x)
                 /\ x[StampColumn(lastLoad.e)] <= now

\* a non-empty batch was loaded twice and the second load moved a load timestamp
C4_Witness ==
    /\ phase = "twice"
    /\ lastLoad.batch # {}
    /\ tgt[lastLoad.e] # lastLoad.after

\* the columns of dim_scenario a conflicting load may overwrite: status, the
\* lifecycle timestamps (each with its actor column)
Lifecycle(x) ==
    <<x.scenario_status, x.submitted_at, x.locked_at, x.updated_at, x.withdraw_at,
      x.delete_at>>

\* the other data columns: display name, created_at, model and forecast cycle
Origin(x) == <<x.scenario_id, x.scenario_display_name, x.created_at>>

OriginKept ==
    \A x \in tgt[E_SCEN] :
        \E f \in firstRows : Origin(f) = Origin(x) /\ f.etl_loaded_at = x.etl_loaded_at

\* C10 as stated: every stored dim_scenario row keeps the origin columns of the
\* first load of its id, and a load changes a stored row in its status and
\* lifecycle columns only.
C10_OnlyLifecycleOverwritten ==
    /\ []OriginKept
    /\ [][\A x \in tgt[E_SCEN] : \E y \in tgt'[E_SCEN] :
             /\ Origin(y) = Origin(x)
             /\ y.etl_loaded_at = x.etl_loaded_at
             /\ y.etl_updated_at = x.etl_updated_at]_vars

\* C10 as amended: every stored dim_scenario row keeps the origin columns of the
\* first load of its id; a load changes a stored row in its status and lifecycle
\* columns and in etl_updated_at, which it sets to the time of the load, only.
C10_OriginColumnsKept ==
    /\ []OriginKept
    /\ [][\A x \in tgt[E_SCEN] : \E y \in tgt'[E_SCEN] :
             /\ Origin(y) = Origin(x)
             /\ y.etl_loaded_at = x.etl_loaded_at
             /\ y.etl_updated_at \in {x.etl_updated_at, now}
             /\ (Lifecycle(y) # Lifecycle(x) => y.etl_updated_at = now)]_vars

\* a scenario renamed and updated at the source after its first load was loaded
\* again: the stored row took the new updated_at and kept the first name
C10_Witness ==
    \E x \in tgt[E_SCEN], r \in src.scenario :
        /\ r.id = x.scenario_id
        /\ r.scenario_display_name # x.scenario_display_name
        /\ x.updated_at = r.updated_at
        /\ x.updated_at # Null

\* the current block has extracted / has loaded and not yet committed
Extracted == pc \in {"transform", "load", "update_watermark"} /\ "extract" \in trail[Unit]
JustLoaded == pc = "update_watermark" /\ "load" \in trail[Unit]

\* the target rows that carry source record r of entity e
Stored(e, r) == {x \in tgt[e] : x[KeyOf(e)] = r[ExtractKey(e)]}

\* the next get_watermark(e) if no commit comes before it
NextSince(e) == Cursor(wm, e) - OVERLAP_SEC

OneRowPerKey(e) == \A x, y \in tgt[e] : x[KeyOf(e)] = y[KeyOf(e)] => x = y

\* C5: in every reachable state, after any cycles, re-offers and retries, every
\* target table holds at most one row per dedup key; and no step changes or
\* removes a stored row of fact_node_calc_results or fact_scenario_timeline.
C5_OneRowPerKey ==
    /\ [](\A e \in Entities : OneRowPerKey(e))
    /\ [][\A e \in {E_CALC, E_TL} : tgt[e] \subseteq tgt'[e]]_vars

\* an insert-only load was offered, at a later clock reading, a record the table
\* already held when the invocation started, and the stored row is as it was
C5_Witness ==
    /\ JustLoaded
    /\ Unit \in {E_CALC, E_TL}
    /\ \E x \in tgtAtStart[Unit] :
          /\ Conflicts(transformed, KeyOf(Unit), x)
          /\ x \in tgt[Unit]
          /\ now > x.etl_loaded_at

\* C6: when a load of node or event data is offered, with version_ended_at = X, a
\* record whose stored row is current with no end, the stored row of that
\* source_id is afterwards not current and ends at X, and it is the only row of
\* that source_id.
C6_VersionClosed ==
    (JustLoaded /\ Unit \in {E_NODE, E_EVT}) =>
        \A r \in rows, x \in tgtAtStart[Unit] :
            (/\ x.source_id = r.id
             /\ x.is_current_version
             /\ x.version_ended_at = Null
             /\ r.version_ended_at # Null)
            => \E y \in tgt[Unit] :
                  /\ y.source_id = r.id
                  /\ ~y.is_current_version
                  /\ y.version_ended_at = r.version_ended_at
                  /\ \A z \in tgt[Unit] : z.source_id = r.id => z = y

\* a version stored as current was re-extracted with an end and loaded
C6_Witness ==
    /\ JustLoaded
    /\ Unit \in {E_NODE, E_EVT}
    /\ \E r \in rows, x \in tgtAtStart[Unit], y \in tgt[Unit] :
          /\ x.source_id = r.id
          /\ x.is_current_version
          /\ r.version_ended_at # Null
          /\ y.source_id = r.id
          /\ ~y.is_current_version
          /\ y.version_ended_at = r.version_ended_at

\* C7: once a block has extracted, every record that the entity's last committed
\* block extracted, with a relevant timestamp T below that commit's cursor and at
\* or after this extraction's window start, is among the rows extracted now; and
\* once they are loaded each has one stored row.
C7_ReofferedInOverlap ==
    /\ Extracted =>
          \A r \in offered[Unit] :
              (\E T \in Stamps(Unit, src, r) :
                  T # Null /\ T[1] < Cursor(wm, Unit) /\ T[1] >= since)
              => r[ExtractKey(Unit)] \in Keys(Unit, rows)
    /\ JustLoaded => \A r \in rows : Cardinality(Stored(Unit, r)) = 1

C9_RemainderPickedUp ==
    \A e \in Entities :
        \A r \in AllRecords(e, src) :
            r[ExtractKey(e)] \in dropped[e]
            => Stored(e, r) # {} \/ Within(e, src, r, NextSince(e))

----------------------------------------------------------------------------
(* Versioned history tables: what a conflict on source_id overwrites *)

Versioned == {E_NODE, E_EVT}

\* the version-closing and validation-state columns
Closing(e) ==
    IF e = E_NODE
    THEN {"version_ended_at", "is_current_version", "input_validated", "validation_message"}
    ELSE {"version_ended_at", "is_current_version", "is_validated", "validation_message"}

\* y has x's value in every column outside cols
SameOutside(x, y, cols) == \A c \in (DOMAIN x) \ cols : y[c] = x[c]

\* C11 as stated: a load changes a stored row of fact_node_input_history or
\* fact_event_input_history in its version-closing and validation-state
\* columns only; every other column keeps the value of the first insert.
C11_OnlyClosingOverwritten ==
    [][\A e \in Versioned : \A x \in tgt[e] : \E y \in tgt'[e] :
          SameOutside(x, y, Closing(e))]_vars

\* C11 as amended: a load changes a stored row of the two history tables in
\* its version-closing and validation-state columns and in etl_loaded_at,
\* which it sets to the time of the load, only; every other column,
\* version_started_at, the flattened payload columns and the raw payload text
\* included, keeps the value of the first insert.
C11_WriteOnceColumnsKept ==
    [][\A e \in Versioned : \A x \in tgt[e] : \E y \in tgt'[e] :
          /\ SameOutside(x, y, Closing(e) \cup {"etl_loaded_at"})
          /\ y.etl_loaded_at \in {x.etl_loaded_at, now}
          /\ (~SameOutside(x, y, {"etl_loaded_at"}) => y.etl_loaded_at = now)]_vars

\* an event version whose payload was revised when it was ended at the source
\* was loaded again: the stored row is closed and holds the first payload
C11_Witness ==
    \E x \in tgt[E_EVT], r \in src.event_data :
        /\ r.id = x.source_id
        /\ r.end_at # Null
        /\ x.version_ended_at = r.end_at
        /\ ~x.is_current_version
        /\ r.event_data = EventData2
        /\ x.event_data_full_text = FullText(EventData1)
        /\ x.evt_share_value = PyFloat(35)

----------------------------------------------------------------------------
(* Empty extractions *)

\* the step is the return of the current block's call of step
Returns(step) == step \notin trail[Unit] /\ step \in trail'[Unit]

\* C12: when an entity's extraction returns no rows, the block goes straight
\* to update_watermark: no transform or load runs for it and its target table
\* is as it was at the start of the cycle; update_watermark is called with
\* count 0 and sets the entity's cursor to the time of the commit.
C12_EmptyExtractionCommits ==
    [][/\ (Returns("extract") /\ rows' = {} => pc' = "update_watermark")
       /\ (Returns("update_watermark") /\ rows = {} =>
              /\ trail'[Unit] = {"get_watermark", "extract", "update_watermark"}
              /\ tgt'[Unit] = tgtAtStart[Unit]
              /\ WmRow(wm', Unit).last_fetched_at = now
              /\ WmRow(wm', Unit).rows_last_run = 0
              /\ WmRow(wm', Unit).total_rows_ever = WmRow(wm, Unit).total_rows_ever)]_vars

\* in the second cycle an entity with nothing extracted was committed: its
\* cursor moved forward from the first cycle's commit time
C12_Witness ==
    \E e \in Entities :
        /\ cycle = 2
        /\ trail[e] = {"get_watermark", "extract", "update_watermark"}
        /\ offered[e] = {}
        /\ WmRow(wm, e).rows_last_run = 0
        /\ WmRow(wmAtStart, e).last_fetched_at > DefaultEpoch
        /\ WmRow(wm, e).last_fetched_at > WmRow(wmAtStart, e).last_fetched_at

----------------------------------------------------------------------------
(* The load call: empty batches and failures *)

\* C13: a load of an empty batch returns 0 and does not raise, also when the
\* target store is failing; it takes no connection from the pool and leaves
\* the target table as it was.
C13_EmptyBatchNoOp ==
    (phase \in {"once", "raised"} /\ lastLoad.batch = {}) =>
        /\ lastLoad.ret = Some(0)
        /\ ~lastLoad.raised
        /\ lastLoad.conns = 0
        /\ lastLoad.after = lastLoad.before
        /\ tgt[lastLoad.e] = lastLoad.before

\* an empty batch was loaded into a table that holds rows
C13_Witness ==
    /\ phase = "once"
    /\ lastLoad.batch = {}
    /\ lastLoad.before # {}
    /\ lastLoad.ret = Some(0)

\* C14: a load that raises, at the statement of any page or at the commit,
\* leaves the target table as it was before the call, so none of the batch is
\* visible; a load that returns has applied the statement to every row of the
\* batch, and every row of the batch is stored under its key.
C14_LoadAtomic ==
    /\ phase = "raised" =>
          /\ lastLoad.raised
          /\ tgt[lastLoad.e] = lastLoad.before
    /\ phase = "once" =>
          /\ ~lastLoad.raised
          /\ tgt[lastLoad.e] =
                Load(lastLoad.e, lastLoad.before, lastLoad.batch, lastLoad.at)
          /\ \A r \in lastLoad.batch : \E x \in tgt[lastLoad.e] :
                x[KeyOf(lastLoad.e)] = r[KeyOf(lastLoad.e)]
          /\ lastLoad.ret = Some(Cardinality(lastLoad.batch))

\* a load of two pages into a table that holds a row of the batch raised after
\* its first page was sent
C14_Witness ==
    /\ phase = "raised"
    /\ Cardinality(lastLoad.batch) = 2
    /\ Cardinality(lastLoad.sent) = 1
    /\ \E x \in lastLoad.before : Conflicts(lastLoad.batch, KeyOf(lastLoad.e), x)
    /\ Load(lastLoad.e, lastLoad.before, lastLoad.sent, lastLoad.at) # lastLoad.before
    /\ tgt[lastLoad.e] = lastLoad.before

----------------------------------------------------------------------------
(* Totality of the transformer *)

\* C15 as stated: no call of a transform function raises, and a transform
\* that returned gave one output row per extracted record.
C15_TransformTotal ==
    /\ \A e \in Entities : raised[e] # "transform"
    /\ "transform" \in trail[Unit] /\ pc = "load" =>
          Cardinality(transformed) = Cardinality(rows)

----------------------------------------------------------------------------
(* Tolerant coercion and flattening *)

\* v is a representation of a value of the type f coerces to
Recognised(f, v) ==
    CASE f = "safe_bool" ->
           \/ v.t \in {"bool", "int", "float"}
           \/ v.t = "str" /\ ~IsText(v)
              /\ Lower(v.s) \in {"true", "false", "1", "0", "yes", "no"}
      [] f = "safe_numeric" ->
           \/ v.t \in {"bool", "int", "float"}
           \/ v.t = "str" /\ ~IsText(v) /\ v.s \in DOMAIN FloatTexts
      [] f = "safe_int" ->
           \/ v.t \in {"bool", "int", "float"}
           \/ v.t = "str" /\ ~IsText(v) /\ v.s \in DOMAIN IntTexts

\* C16 as stated: a coercion never raises, and returns None for every value
\* that is no representation of its target type.
C16_CoercionsTolerant ==
    (fn \in Coercions /\ ret # Null) =>
        /\ ~Raises(ret[1])
        /\ (~Recognised(fn, arg) => ret[1] = PyNone)

\* the kind of the known key k, "none" for any other key
KindOf(keys, k) ==
    CASE k \in keys.numeric -> "numeric"
      [] k \in keys.int -> "int"
      [] k \in keys.bool -> "bool"
      [] k \in keys.text -> "text"
      [] OTHER -> "none"

\* JSON value v has the type of the keys of kind; null has every type
HasType(kind, v) ==
    CASE kind = "numeric" -> v.t \in {"NoneType", "int", "float"}
      [] kind = "int" -> v.t \in {"NoneType", "int"}
      [] kind = "bool" -> v.t \in {"NoneType", "bool"}
      [] kind = "text" -> v.t \in {"NoneType", "str"}
      [] OTHER -> TRUE

WellTyped(keys, p) ==
    p.t = "dict" /\ \A i \in 1..Len(p.d) : HasType(KindOf(keys, p.d[i][1]), p.d[i][2])

\* the column a known key is flattened into
ColumnOf(f, k) == (IF f = "flatten_input_data" THEN "inp_" ELSE "evt_") \o k
RawColumn(f) ==
    IF f = "flatten_input_data" THEN "input_data_full_text" ELSE "event_data_full_text"

\* C17 as stated: a payload that is no object, or an object with a value of
\* the wrong type under a known key, fails neither the transform nor the load
\* of its record: the flattener returns, the insert of its columns succeeds,
\* every typed column whose value cannot be coerced is null, and the raw
\* fallback column holds the payload.
C17_ShapeTolerant ==
    (fn \in Flatteners /\ ret # Null /\ ~WellTyped(KeysOf(fn), arg)) =>
        /\ ~FlattenRaises(ret[1])
        /\ ins # Null => ~Raises(ins[1])
        /\ arg # PyNone => ret[1][RawColumn(fn)] # PyNone
        /\ \A k \in Known(KeysOf(fn)) :
              ~HasType(KindOf(KeysOf(fn), k), safe_get(arg, k))
              /\ KindOf(KeysOf(fn), k) # "text"
              /\ ~Recognised(CASE KindOf(KeysOf(fn), k) = "numeric" -> "safe_numeric"
                               [] KindOf(KeysOf(fn), k) = "int" -> "safe_int"
                               [] OTHER -> "safe_bool", safe_get(arg, k))
              => ret[1][ColumnOf(fn, k)] = PyNone

\* column value c holds the payload's value v of a key of kind
Holds(kind, c, v) ==
    IF kind = "numeric" /\ v.t = "int" THEN c = PyFloatOf(v) ELSE c = v

\* the object without its items for keys outside known
RECURSIVE KnownItems(_, _)
KnownItems(items, known) ==
    IF items = <<>> THEN <<>>
    ELSE (IF Head(items)[1] \in known THEN <<Head(items)>> ELSE <<>>)
         \o KnownItems(Tail(items), known)
Restricted(p, known) == PyDict(KnownItems(p.d, known))

\* C18 as stated: for a payload object with well-typed values, every typed
\* column holds the payload's value of its key (null for an absent key) and
\* the raw fallback is the serialized payload: it parses back to the payload;
\* the value of an unknown key changes no typed column and is in the raw
\* fallback.
C18_FlattenFaithful ==
    (fn \in Flatteners /\ ret # Null /\ WellTyped(KeysOf(fn), arg)) =>
        /\ ~FlattenRaises(ret[1])
        /\ \A k \in Known(KeysOf(fn)) :
              Holds(KindOf(KeysOf(fn), k), ret[1][ColumnOf(fn, k)], safe_get(arg, k))
        /\ ret[1][RawColumn(fn)] # PyNone
        /\ json_loads(ret[1][RawColumn(fn)]) = arg
        /\ \A c \in DOMAIN ret[1] \ {RawColumn(fn)} :
              ret[1][c] = (IF fn = "flatten_input_data"
                           THEN flatten_input_data(Restricted(arg, Known(InputKeys)))
                           ELSE flatten_event_data(Restricted(arg, Known(EventKeys))))[c]

----------------------------------------------------------------------------
(* The scheduler's failure counter *)

\* the number of most recent consecutive invocations that raised
RECURSIVE TrailingRaised(_)
TrailingRaised(os) ==
    IF os = <<>> \/ ~os[Len(os)].raised THEN 0
    ELSE 1 + TrailingRaised(SubSeq(os, 1, Len(os) - 1))

\* the number of most recent consecutive invocations during which the
\* watermark store was unreachable
RECURSIVE TrailingDown(_)
TrailingDown(os) ==
    IF os = <<>> \/ ~os[Len(os)].down THEN 0
    ELSE 1 + TrailingDown(SubSeq(os, 1, Len(os) - 1))

\* C19: consecutive_failures is the number of most recent consecutive
\* run_cycle invocations that raised an Exception: 0 after an invocation that
\* returned, one more after each invocation that raised.
C19_CounterIsTrailingFailures ==
    /\ consecutive_failures = TrailingRaised(outcomes)
    /\ Len(outcomes) = cycle - (IF pc = "idle" THEN 0 ELSE 1)

\* two invocations raised in a row after one that returned, which itself
\* followed one that raised
C19_Witness ==
    /\ consecutive_failures = 2
    /\ \E i \in 1..Len(outcomes) :
          /\ i + 3 = Len(outcomes)
          /\ outcomes[i].raised
          /\ ~outcomes[i + 1].raised

\* C20 as stated: every invocation during which the watermark store is
\* unreachable counts as a failure, so consecutive_failures is at least the
\* number of most recent consecutive such invocations, and the escalation has
\* been logged once that number has reached the threshold.
C20_OutageEscalates ==
    /\ consecutive_failures >= TrailingDown(outcomes)
    /\ TrailingDown(outcomes) >= MAX_CONSECUTIVE_FAILURES => criticals >= 1

----------------------------------------------------------------------------
(* The scheduler loop: failed invocations, the sleep, termination *)

\* the step is the end of a run_cycle invocation that raised an Exception
FailedCycle ==
    /\ Len(outcomes') = Len(outcomes) + 1
    /\ outcomes'[Len(outcomes')].raised

\* the loop is between two invocations and the last one raised
AfterFailure ==
    /\ pc = "idle"
    /\ outcomes # <<>>
    /\ outcomes[Len(outcomes)].raised

\* the step logs the escalation
Escalates == criticals' = criticals + 1

\* C21: an Exception raised by a cycle never ends the loop.  A failed cycle
\* logs the escalation exactly when the failure count has reached
\* MAX_CONSECUTIVE_FAILURES, the process is still running after it with or
\* without the escalation, and unless a KeyboardInterrupt ends the process
\* the loop starts the next cycle.
C21_FailedCycleGoesOn ==
    /\ [][FailedCycle =>
            /\ pc' = "idle" /\ exit' = Null
            /\ Escalates <=> consecutive_failures' >= MAX_CONSECUTIVE_FAILURES]_vars
    /\ [][criticals' # criticals => FailedCycle /\ Escalates]_vars
    /\ [](pc = "exited" => exit # Null)
    /\ (AfterFailure /\ cycle < limit) ~> (pc = "get_watermark" \/ exit # Null)

\* ten invocations in a row raised, the tenth logged the escalation, and the
\* eleventh is running
C21_Witness ==
    /\ Len(outcomes) = MaxSchedCycles
    /\ consecutive_failures = MAX_CONSECUTIVE_FAILURES
    /\ criticals = 1
    /\ cycle = MaxSchedCycles + 1
    /\ pc = "extract"
    /\ exit = Null

\* the kinds of invocation that have ended: raised, returned with every block
\* failing on the unreachable watermark store, returned with no failure
Raised(o) == o.raised
Partial(o) == ~o.raised /\ o.down
Clean(o) == ~o.raised /\ ~o.down

\* C22: between two consecutive run_cycle invocations the loop sleeps once,
\* for POLL_INTERVAL_SEC, whatever the earlier invocation's outcome and the
\* failure count: the clock moves only in the sleep that follows the end of
\* an invocation, by POLL_INTERVAL_SEC, and an invocation starts only after
\* the sleep that followed the one before.
C22_FixedSleepBetweenCycles ==
    /\ [][now' # now =>
            /\ pc = "returned" /\ pc' = "idle"
            /\ Len(outcomes') = Len(outcomes) + 1
            /\ now' = now + POLL_INTERVAL_SEC]_vars
    /\ [][cycle' # cycle =>
            /\ pc = "idle" /\ cycle' = cycle + 1
            /\ Len(outcomes) = cycle
            /\ now = StartClock + POLL_INTERVAL_SEC * cycle]_vars

\* an invocation is running after one that raised, one that returned with
\* failed blocks and one that returned with none
C22_Witness ==
    /\ pc = "get_watermark"
    /\ exit = Null
    /\ consecutive_failures >= 2
    /\ \E i, j, k \in 1..Len(outcomes) :
          Raised(outcomes[i]) /\ Partial(outcomes[j]) /\ Clean(outcomes[k])
\* C23: a KeyboardInterrupt delivered between two cycles, while the
\* scheduler sleeps, ends the process through the clean-stop path, with exit
\* status zero.
C23_InterruptedSleepExitsZero ==
    [][pc = "idle" /\ cycle > 0 /\ exit' # Null => exit' = Some(0)]_vars

\* entity e's block of the current invocation is over: it committed or it raised
Processed(e) == raised[e] # "none" \/ "update_watermark" \in trail[e]

\* C24: a termination signal never aborts a cycle that has started: when the
\* process has stopped, all six entity units of its last invocation have
\* been processed.
C24_NoMidCycleStop ==
    (exit # Null /\ cycle > 0) => \A e \in Entities : Processed(e)
----------------------------------------------------------------------------
(* Sequential execution *)

\* no step of entity e's block has run in the current invocation
Untouched(e) == raised[e] = "none" /\ trail[e] = {}

\* C25: work is strictly sequential.  While an invocation runs, the blocks
\* before the current one are over (committed or raised), the current one is
\* not, and the blocks after it have not begun, so the units run one at a
\* time in the order of Units; the current block changes only to the next
\* one, when the current one is over; and an invocation starts only when the
\* one before it has returned or raised and the loop has slept.
C25_StrictlySequential ==
    /\ [](pc \in Steps =>
            \A i \in 1..Len(Units) :
               /\ i < ent => Processed(Units[i])
               /\ i = ent => ~Processed(Units[i])
               /\ i > ent => Untouched(Units[i]))
    /\ [][(ent' # ent /\ cycle' = cycle) =>
            /\ ent' = ent + 1
            /\ pc' = "get_watermark"
            /\ raised'[Units[ent]] # "none" \/ "update_watermark" \in trail'[Units[ent]]]_vars
    /\ [][cycle' # cycle =>
            /\ cycle' = cycle + 1
            /\ pc = "idle" /\ Len(outcomes) = cycle
            /\ pc' = "get_watermark" /\ ent' = 1]_vars

\* the second invocation, started after the first one raised, is in its
\* third block
C25_Witness ==
    /\ cycle = 2
    /\ outcomes[1].raised
    /\ ent = 3
    /\ pc = "extract"
    /\ "update_watermark" \in trail[E_SCEN]
    /\ "update_watermark" \in trail[E_NODE]
----------------------------------------------------------------------------
(* Recovery from outages *)

\* C26: after a transient connectivity failure has made cycles fail for an
\* entity, the entity is retried on every following cycle, and once the store
\* is reachable again a following cycle completes the entity: every block of
\* an invocation is processed, and an invocation completes every entity when
\* the source store has been reachable since its predecessor started.
C26_RetriedUntilRecovered ==
    pc = "returned" =>
       /\ \A e \in Entities : Processed(e)
       /\ (outcomes # <<>> /\ ~outcomes[Len(outcomes)].cut /\ ~srcDown) =>
              \A e \in Entities : Committed(e)
----------------------------------------------------------------------------
(* The watermark store *)

\* the step is a call of function f of the watermark harness
Calls(f) == fn' = f /\ <<fn, arg, ret, wm>>' # <<fn, arg, ret, wm>>

\* C27: get_watermark(E) returns last_fetched_at of E's row minus OVERLAP_SEC
\* when the row exists and the default epoch 2020-01-01 when it does not, and
\* it leaves the watermark table as it is.
C27_GetWatermarkResult ==
    [][Calls("get_watermark") =>
         /\ wm' = wm
         /\ \A x \in wm :
               x.table_name = arg'[1] => ret' = Some(x.last_fetched_at - OVERLAP_SEC)
         /\ (\A x \in wm : x.table_name # arg'[1]) => ret' = Some(DefaultEpoch)]_vars

\* get_watermark has returned for an entity with a committed cursor
C27_Witness ==
    /\ fn = "get_watermark"
    /\ \E x \in wm :
          /\ x.table_name = arg[1]
          /\ x.last_fetched_at > StartClock
          /\ ret = Some(x.last_fetched_at - OVERLAP_SEC)
\* the step is the cursor commit of entity e's block
Commits(e) == pc = "update_watermark" /\ Unit = e /\ Committed(e)' /\ ~Committed(e)

\* the cursor commit of the current block writes the commit instant to both
\* timestamps, the count of extracted rows to rows_last_run, adds it to the
\* running total, and changes no other row
CommitWrites ==
    \A e \in Entities :
       Commits(e) =>
          /\ WmRow(wm', e) = [table_name |-> e, last_fetched_at |-> now,
                              rows_last_run |-> Cardinality(rows),
                              last_run_at |-> Some(now),
                              total_rows_ever |->
                                  WmRow(wm, e).total_rows_ever + Cardinality(rows)]
          /\ wm' \ WmRows(wm', e) = wm \ WmRows(wm, e)

\* the running total of every entity is the sum of the counts it committed
TotalsAreSums == \A e \in Entities : WmRow(wm, e).total_rows_ever = counted[e]

\* C28 as stated: each update_watermark(E, n) sets both timestamps to the
\* commit instant, rows_last_run to n and adds n to total_rows_ever, n being
\* the number of rows extracted; and after any sequence of cycles
\* total_rows_ever is the sum of the extracted counts of E's committed cycles
\* and last_run_at = last_fetched_at.
C28_TimestampsAlwaysEqual ==
    /\ [][CommitWrites]_vars
    /\ []TotalsAreSums
    /\ [](\A e \in Entities :
            (cycle > 0 /\ pc = "idle") =>
                WmRow(wm, e).last_run_at = Some(WmRow(wm, e).last_fetched_at))

\* C28 as amended: the same, with last_run_at = last_fetched_at for every
\* entity that has committed a cycle; the row of an entity that has not is as
\* seeded, with last_run_at null.
C28_CommitCounters ==
    /\ [][CommitWrites]_vars
    /\ []TotalsAreSums
    /\ [](\A e \in Entities :
            IF WmRow(wm, e).last_run_at = Null
            THEN WmRow(wm, e) = SeedRow(e)
            ELSE WmRow(wm, e).last_run_at = Some(WmRow(wm, e).last_fetched_at))

\* an entity has committed rows in two invocations
C28_Witness ==
    \E e \in Entities :
       /\ cycle = 2
       /\ Committed(e)
       /\ WmRow(wmAtStart, e).total_rows_ever = 1
       /\ WmRow(wm, e).rows_last_run = 1
       /\ WmRow(wm, e).total_rows_ever = 2
       /\ counted[e] = 2
\* the step is a run of setup(): no step of the daemon or of the source
\* application
SetupRuns == fn' = "setup" /\ aside' = aside

\* C29: provisioning is idempotent.  Run again at any time, setup() leaves
\* every watermark row and every loaded data row as it is, adds only rows as
\* first seeded, and afterwards etl_watermark holds exactly one row for every
\* seeded name, among them every entity name run_cycle reads or commits;
\* running it once more changes nothing.
C29_SetupIdempotent ==
    /\ [][SetupRuns =>
            /\ wm \subseteq wm'
            /\ \A x \in wm' \ wm : x = SeedRow(x.table_name)
            /\ tgt' = tgt
            /\ \A n \in SeedNames : Cardinality(WmRows(wm', n)) = 1
            /\ SeedWatermark(wm') = wm']_vars
    /\ [](Entities \subseteq SeedNames)
    /\ [](\A n \in SeedNames : Cardinality(WmRows(wm, n)) <= 1)

\* setup() has run after cycles that loaded rows and committed cursors, and
\* has seeded again the row of an entity whose row had been deleted
C29_Witness ==
    /\ fn = "setup"
    /\ \A n \in SeedNames : WmRows(wm, n) # {}
    /\ \E e \in Entities : tgt[e] # {}
    /\ \E e \in Entities : WmRows(wm, e) # {SeedRow(e)}
    /\ \E e \in Entities : counted[e] > 0 /\ WmRows(wm, e) = {SeedRow(e)}
----------------------------------------------------------------------------
(* Derived state of the versioned history tables *)

\* C30: every stored row of fact_node_input_history and of
\* fact_event_input_history has is_current_version = (version_ended_at is null).
C30_CurrentIffOpen ==
    \A e \in Versioned : \A x \in tgt[e] :
       x.is_current_version <=> x.version_ended_at = Null

\* the event history holds a version that was loaded as current and has been
\* closed by the load of this invocation
C30_Witness ==
    \E x \in tgtAtStart[E_EVT], y \in tgt[E_EVT] :
       /\ x.source_id = y.source_id
       /\ x.is_current_version /\ x.version_ended_at = Null
       /\ ~y.is_current_version /\ y.version_ended_at # Null

----------------------------------------------------------------------------
(* Extractors: what the WHERE clauses select *)

\* the timestamp columns of base table tb that the queries return and the
\* loaders write: creation, mutation, lifecycle transitions, completion and
\* version close
TimestampColumns(tb) ==
    CASE tb = "scenario" ->
           {"created_at", "updated_at", "submitted_at", "locked_at", "withdraw_at",
            "delete_at"}
      [] tb = "node_data" -> {"created_at", "end_at"}
      [] tb = "run" -> {"run_at", "run_complete_at"}
      [] tb = "calc" -> {"created_at", "processing_end_at"}
      [] tb = "event_data" -> {"created_at", "end_at"}

\* C31: when an extractor is called with since, every row of its base table
\* with a timestamp column (creation, mutation, submit, lock, withdraw, delete,
\* completion, version close) at or after since is among the records its WHERE
\* clause selects.
C31_EveryChangeSelected ==
    fn = "extract" =>
        \A tb \in TableOf(Unit) :
            \A r \in srcAtExtract[tb] :
                (\E c \in TimestampColumns(tb) : GeSince(r[c], since))
                => r.id \in Keys(Unit, Changes(Unit, srcAtExtract, since))


----------------------------------------------------------------------------
(* Timeline: the synthetic dedup key *)

\* two extracted timeline rows stand for the same logical event
SameEvent(r, q) ==
    /\ r.scenario_id = q.scenario_id
    /\ r.event_type = q.event_type
    /\ r.event_time = q.event_time

\* C32: of the timeline rows two successive calls of extract_timeline_events
\* return, any two with the same source_key are the same logical event (same
\* scenario, event type and event time), so that the insert-with-dedup load
\* drops re-deliveries only.
C32_SourceKeyUnique ==
    [][(fn = "extract" /\ Unit = E_TL /\ fn' = "extract" /\ Unit' = E_TL)
          => \A r \in rows, q \in rows' :
                r.source_key = q.source_key => SameEvent(r, q)]_vars


----------------------------------------------------------------------------
(* Node input history: current versions per logical key *)

\* the logical key of a row of fact_node_input_history
LogicalKey(x) == <<x.scenario_id, x.model_node_id>>

\* C33: after every invocation of run_cycle, truncated or failed ones included,
\* fact_node_input_history holds at most one row with is_current_version = true
\* per logical key (scenario_id, model_node_id).
C33_OneCurrentPerKey ==
    pc \in {"returned", "idle"} =>
        \A x, y \in tgt[E_NODE] :
            (/\ LogicalKey(x) = LogicalKey(y)
             /\ x.is_current_version
             /\ y.is_current_version)
            => x = y


----------------------------------------------------------------------------
(* Connection pool: connections checked out *)

\* C34: every connection taken from the pool is back in it when the with-block
\* is left, normally or by an exception, a failing rollback included: while
\* the scheduler is between two invocations of run_cycle no connection of the
\* source pool is checked out, and the pool never has all its MaxConn
\* connections checked out.
C34_ConnectionsReturned ==
    /\ pc \in {"idle", "returned"} => source_pool.used = 0
    /\ source_pool.used < MaxConn


----------------------------------------------------------------------------
(* Consecutive extraction windows *)

\* entity e's block of this invocation has read its window start and not yet
\* extracted, and its block of the previous invocation committed
WindowRead(e) ==
    /\ pc = "extract"
    /\ Unit = e
    /\ cycle >= 2
    /\ raisedPrev[e] = "none"
    /\ extractedAt[e] # Null

\* C35: when an entity's blocks of two invocations in a row commit, the window
\* start the later one reads (the earlier commit's time minus the overlap) is at
\* or before the clock reading of the earlier one's extraction, provided that
\* extraction and its commit were at most the overlap apart.
C35_WindowsLeaveNoGap ==
    \A e \in Entities :
        (WindowRead(e) /\ Cursor(wm, e) - extractedAt[e][1] <= OVERLAP_SEC)
        => since <= extractedAt[e][1]

\* time has passed between the earlier block's extraction and its commit
C35_Witness ==
    \E e \in Entities :
        /\ WindowRead(e)
        /\ Cursor(wm, e) > extractedAt[e][1]
        /\ Cursor(wm, e) - extractedAt[e][1] <= OVERLAP_SEC
        /\ since <= extractedAt[e][1]


----------------------------------------------------------------------------
(* A cursor commit that fails after the load has committed *)

\* entity e's block of the previous invocation loaded rows and then raised in
\* update_watermark
Retried(e) == raisedPrev[e] = "update_watermark" /\ unconfirmed[e] # {}

\* C36: when update_watermark raises after an entity's load has committed, the
\* loaded records stay in the target and the cursor is as it was; the entity's
\* block of the next invocation reads the same window start, extracts those
\* records again, and once it has loaded each of them has one stored row.
C36_RetryConverges ==
    \A e \in Entities :
        /\ (raised[e] = "update_watermark" /\ unconfirmed[e] # {}) =>
              /\ Cursor(wm, e) = Cursor(wmAtStart, e)
              /\ \A r \in unconfirmed[e] : Cardinality(Stored(e, r)) = 1
        /\ (Retried(e) /\ Unit = e /\ Extracted) =>
              /\ since = sincePrev[e][1]
              /\ Keys(e, unconfirmed[e]) \subseteq Keys(e, rows)
        /\ (Retried(e) /\ Unit = e /\ JustLoaded) =>
              \A r \in unconfirmed[e] : Cardinality(Stored(e, r)) = 1


----------------------------------------------------------------------------
(* Insert-only tables: a stored row is the record as first loaded *)

InsertOnly == {E_CALC, E_TL}

\* the row an insert-only load stores for transformed record r at time t
InsertedRow(e, r, t) == IF e = E_CALC THEN CalcResultInsert(r, t) ELSE TimelineInsert(r, t)

\* C37: in fact_node_calc_results and fact_scenario_timeline a row enters the
\* table only by the entity's load, as the transformed record extracted in that
\* block, and no step changes, removes or doubles a stored row afterwards,
\* whatever becomes of the source record.
C37_FirstLoadKept ==
    [][\A e \in InsertOnly :
          /\ \A x \in tgt[e], y \in tgt'[e] : y[KeyOf(e)] = x[KeyOf(e)] => y = x
          /\ \A y \in tgt'[e] \ tgt[e] :
                /\ pc = "load"
                /\ Unit = e
                /\ \E r \in transformed : y = InsertedRow(e, r, now)]_vars

\* a node calc stored as running was extracted again with another status and
\* loaded, and the stored row is as it was
C37_Witness ==
    /\ JustLoaded
    /\ Unit = E_CALC
    /\ \E x \in tgtAtStart[E_CALC], r \in rows :
          /\ r.id = x.source_id
          /\ r.calc_status # x.calc_status
          /\ x \in tgt[E_CALC]
          /\ now > x.etl_loaded_at


----------------------------------------------------------------------------
(* A record whose transform raises, and the entity it belongs to *)

\* the records of entity e's window from s on that make its transformer raise
Poison(e, S, s) == {p \in Changes(e, S, s) : TransformRaises(e, {p})}

\* C38: while a record that makes the transformer raise is in an entity's
\* extraction window, the block of that entity raises in transform, loads
\* nothing and leaves its cursor where it was; every entity whose block did
\* not raise has committed when run_cycle returns, and the scheduler's
\* consecutive_failures is zero after an invocation in which a transform raised.
C38_PoisonBlocksEntity ==
    /\ \A e \in Entities :
          (/\ Unit = e
           /\ pc \in {"transform", "load", "update_watermark"}
           /\ "extract" \in trail[e]
           /\ Poison(e, srcAtExtract, since) # {})
          => /\ pc = "transform"
             /\ TransformRaises(e, rows)
             /\ tgt[e] = tgtAtStart[e]
             /\ Cursor(wm, e) = Cursor(wmAtStart, e)
    /\ pc = "returned" => \A e \in Entities : raised[e] = "none" => Committed(e)
    /\ (pc = "idle" /\ cycle >= 1 /\ \E e \in Entities : raised[e] = "transform")
          => consecutive_failures = 0

=============================================================================
